---------------------------- MODULE Spec2Model ----------------------------
(***************************************************************************)
(* A model of lib/Sema/TypeCheckConstraintsApply.cpp: the application of a *)
(* constraint-system solution to an expression tree.                       *)
(*                                                                         *)
(* Types are tagged tuples (the tag first), expressions are records        *)
(*   [k, ty, sub, id, x]                                                   *)
(* with k the node kind (the C++ class name), ty the recorded type, sub    *)
(* the children, id the node identity (the C++ pointer) and x the          *)
(* kind-specific payload.                                                  *)
(***************************************************************************)
EXTENDS Integers, Sequences, FiniteSets, TLC

VARIABLES
  pc,                          \* position of the driver: which call runs next
  input,                       \* the arguments of the call under study
  result,                      \* what the call returned
  ValueTypeMemberApplications, \* ExprRewriter::ValueTypeMemberApplications
  LeftSideOfAssignment,        \* ExprWalker::LeftSideOfAssignment
  dc,                          \* ExprRewriter::dc
  diags,                       \* diagnostics emitted through tc.diagnose
  log                          \* the tracker events of the run, in order

vars == <<pc, input, result, ValueTypeMemberApplications,
          LeftSideOfAssignment, dc, diags, log>>

---------------------------------------------------------------------------
(* Bounds of the model.                                                    *)

\* Recursion budget of coerceToType and its helpers: a call chain longer
\* than this is reported as divergence.
MaxCoerceDepth == 6

---------------------------------------------------------------------------
(* The type IR.                                                            *)

NoType == <<"none">>
TypeVar(i, arch) == <<"tv", i, arch>>
Nominal(n) == <<"nom", n>>
Archetype(a) == <<"arch", a>>
Existential(p) == <<"exist", p>>
BuiltinInteger(w) == <<"bint", w>>
LValue(obj, quals) == <<"lv", obj, quals>>
MetaType(inst) == <<"meta", inst>>
Optional(val) == <<"opt", val>>
ArraySlice(base) == <<"slice", base>>
Function(inp, res, flag) == <<"fn", inp, res, flag>>
PolymorphicFunction(params, inp, res) == <<"poly", params, inp, res>>
Tuple(fields) == <<"tuple", fields>>
Substituted(arch, repl) == <<"subst", arch, repl>>
NameAlias(n, under) == <<"alias", n, under>>

TupleTypeElt(ty, name, init, vararg) ==
  [ty |-> ty, name |-> name, init |-> init, vararg |-> vararg]

Kind(t) == t[1]

RECURSIVE getCanonicalType(_)
getCanonicalType(t) ==
  CASE Kind(t) = "subst" -> getCanonicalType(t[3])
    [] Kind(t) = "alias" -> getCanonicalType(t[3])
    [] Kind(t) = "lv" -> LValue(getCanonicalType(t[2]), t[3])
    [] Kind(t) \in {"meta", "opt", "slice"} -> <<Kind(t), getCanonicalType(t[2])>>
    [] Kind(t) = "fn" ->
         Function(getCanonicalType(t[2]), getCanonicalType(t[3]), t[4])
    [] Kind(t) = "poly" ->
         PolymorphicFunction(t[2], getCanonicalType(t[3]), getCanonicalType(t[4]))
    [] Kind(t) = "tuple" ->
         Tuple([i \in 1..Len(t[2]) |->
                  [t[2][i] EXCEPT !.ty = getCanonicalType(t[2][i].ty)]])
    [] OTHER -> t

isEqual(a, b) == getCanonicalType(a) = getCanonicalType(b)

RECURSIVE hasTypeVariable(_)
hasTypeVariable(t) ==
  CASE Kind(t) = "tv" -> TRUE
    [] Kind(t) \in {"lv", "meta", "opt", "slice"} -> hasTypeVariable(t[2])
    [] Kind(t) \in {"subst", "alias"} -> hasTypeVariable(t[3])
    [] Kind(t) = "fn" -> hasTypeVariable(t[2]) \/ hasTypeVariable(t[3])
    [] Kind(t) = "poly" -> hasTypeVariable(t[3]) \/ hasTypeVariable(t[4])
    [] Kind(t) = "tuple" ->
         \E i \in 1..Len(t[2]) : hasTypeVariable(t[2][i].ty)
    [] OTHER -> FALSE

\* Type::getRValueType
getRValueType(t) ==
  LET c == getCanonicalType(t) IN IF Kind(c) = "lv" THEN c[2] ELSE t

\* Type::getAs<K>: the type seen through its sugar.
is(t, k) == Kind(getCanonicalType(t)) = k
RECURSIVE desugar(_)
desugar(t) == IF Kind(t) \in {"subst", "alias"} THEN desugar(t[3]) ELSE t


---------------------------------------------------------------------------
(* Declarations and the queries the rewriter makes about types.            *)

\* The nominal and archetype declarations of the program under check:
\* Int and Str are structs, B and D classes (D derives from B), T an
\* archetype with superclass bound B, G an unspecialized generic struct.
ClassNames == {"B", "D"}

\* TypeChecker::getSuperClassOf / ArchetypeType::getSuperclass
getSuperClassOf(t) ==
  LET c == getCanonicalType(t) IN
  CASE c = Nominal("D") -> Nominal("B")
    [] c = Archetype("T") -> Nominal("B")
    [] OTHER -> NoType

\* TypeBase::getClassOrBoundGenericClass
getClassOrBoundGenericClass(t) ==
  is(t, "nom") /\ getCanonicalType(t)[2] \in ClassNames

\* TypeBase::mayHaveSuperclass
mayHaveSuperclass(t) == getClassOrBoundGenericClass(t) \/ is(t, "arch")

\* TypeBase::hasReferenceSemantics
hasReferenceSemantics(t) == getClassOrBoundGenericClass(t) \/ is(t, "fn")

\* TypeBase::getNominalOrBoundGenericNominal (Optional<T> and Slice<T> are
\* bound generic nominals)
getNominalOrBoundGenericNominal(t) ==
  Kind(getCanonicalType(t)) \in {"nom", "opt", "slice"}

\* TupleType::getFieldForScalarInit, 0-based, -1 when there is none.
RECURSIVE ScalarInitFrom(_, _, _)
ScalarInitFrom(fields, i, without) ==
  IF i > Len(fields) THEN (IF without = -1 THEN 0 ELSE without)
  ELSE IF fields[i].init # "None" THEN ScalarInitFrom(fields, i + 1, without)
  ELSE IF without # -1
       THEN (IF fields[i].vararg THEN ScalarInitFrom(fields, i + 1, without)
             ELSE -1)
  ELSE ScalarInitFrom(fields, i + 1, i - 1)

getFieldForScalarInit(tup) ==
  IF Len(desugar(tup)[2]) = 0 THEN -1 ELSE ScalarInitFrom(desugar(tup)[2], 1, -1)

\* TupleTypeElt::getVarargBaseTy: the element type of the slice.
getVarargBaseTy(field) == desugar(field.ty)[2]

---------------------------------------------------------------------------
(* Expressions.                                                            *)

NullId == <<"null">>
Null == [k |-> "Null", ty |-> NoType, sub |-> <<>>, id |-> NullId, x |-> <<>>]
\* The process stopped: an llvm_unreachable, a failed cast or a null
\* dereference.
Crash == [k |-> "Crash", ty |-> NoType, sub |-> <<>>, id |-> <<"crash">>, x |-> <<>>]
\* The call chain did not return within MaxCoerceDepth.
Diverge == [k |-> "Diverge", ty |-> NoType, sub |-> <<>>, id |-> <<"diverge">>, x |-> <<>>]

IsNull(e) == e.k = "Null"
Stopped(e) == e.k \in {"Crash", "Diverge"}
IsExpr(e) == ~IsNull(e) /\ ~Stopped(e)

\* new (tc.Context) K(...): a fresh node; its identity is derived from the
\* kind and the identity of its first child.
Node(k, ty, sub, x) ==
  [k |-> k, ty |-> ty, sub |-> sub,
   id |-> <<"w", k, IF Len(sub) = 0 THEN NullId ELSE sub[1].id>>, x |-> x]

setType(e, ty) == [e EXCEPT !.ty = ty]

\* Locators: an anchor expression and a path.
Locator(anchor, path) == [anchor |-> anchor, path |-> path]
NoLocator == Locator(NullId, <<>>)
withPathElement(loc, elt) == [loc EXCEPT !.path = Append(@, elt)]

\* A solution in which no restriction is recorded for any pair of types.
noRestriction(S, fromType, toType) == "none"

\* Solution::constraintRestrictions.find({from canonical, to canonical})
knownRestriction(S, fromType, toType) ==
  LET key == <<getCanonicalType(fromType), getCanonicalType(toType)>> IN
  IF key \in DOMAIN S.restr THEN S.restr[key] ELSE "none"

\* ExprRewriter::getOverloadChoiceIfAvailable
hasOverloadChoice(S, loc) == loc \in DOMAIN S.ovl
getOverloadChoice(S, loc) == S.ovl[loc]

\* TypeChecker::coerceToRValue: load from an lvalue.
coerceToRValue(e) ==
  IF Stopped(e) THEN e
  ELSE IF IsNull(e) THEN Crash
  ELSE IF is(e.ty, "lv") THEN Node("LoadExpr", getRValueType(e.ty), <<e>>, <<>>)
  ELSE e

---------------------------------------------------------------------------
(* The solution.  A solution S is a record                                 *)
(*   bind    type variable number -> fixed type                            *)
(*   restr   <<canonical from, canonical to>> -> conversion restriction    *)
(*   ovl     locator -> [kind, decl, opened] (the overload choices)        *)
(*   owners  locator -> the function declaration owning default arguments  *)
(*   env     the answers of the type checker's services for this run       *)

\* Solution::getFixedType; the assertion fails for an unbound variable.
getFixedType(S, tv) == IF tv[2] \in DOMAIN S.bind THEN S.bind[tv[2]] ELSE NoType

\* Solution::simplifyType / ExprRewriter::simplifyType: replace every bound
\* type variable by its fixed type, recursively.
RECURSIVE simplifyType(_, _)
simplifyType(S, t) ==
  CASE Kind(t) = "tv" ->
         IF t[2] \in DOMAIN S.bind THEN simplifyType(S, S.bind[t[2]]) ELSE t
    [] Kind(t) = "lv" -> LValue(simplifyType(S, t[2]), t[3])
    [] Kind(t) \in {"meta", "opt", "slice"} -> <<Kind(t), simplifyType(S, t[2])>>
    [] Kind(t) = "subst" -> Substituted(t[2], simplifyType(S, t[3]))
    [] Kind(t) = "alias" -> NameAlias(t[2], simplifyType(S, t[3]))
    [] Kind(t) = "fn" -> Function(simplifyType(S, t[2]), simplifyType(S, t[3]), t[4])
    [] Kind(t) = "poly" ->
         PolymorphicFunction(t[2], simplifyType(S, t[3]), simplifyType(S, t[4]))
    [] Kind(t) = "tuple" ->
         Tuple([i \in 1..Len(t[2]) |->
                  [t[2][i] EXCEPT !.ty = simplifyType(S, t[2][i].ty)]])
    [] OTHER -> t

\* The sentinels of TupleShuffleExpr.
DefaultInitialize == -1
FirstVariadic == -2
CallerDefaultInitialize == -3

\* computeTupleShuffle: named destination fields take the source field of the
\* same name, the others take the remaining sources in order, a variadic
\* destination collects the unnamed rest, a destination with a default and
\* no source is default-initialized.  The result is [failed, sources,
\* variadicArgs].
Unassigned == -4

RECURSIVE MatchNamed(_, _, _, _)
MatchNamed(from, to, i, acc) ==
  IF i > Len(to) THEN acc
  ELSE LET cand == {j \in 1..Len(from) :
                      from[j].name = to[i].name /\ ~acc.consumed[j]} IN
       IF to[i].name = "" \/ cand = {} THEN MatchNamed(from, to, i + 1, acc)
       ELSE LET m == CHOOSE j \in cand : \A j2 \in cand : j <= j2 IN
            MatchNamed(from, to, i + 1,
                       [acc EXCEPT !.sources[i] = m - 1, !.consumed[m] = TRUE])

\* skipToNextAvailableInput
RECURSIVE skipToNextAvailableInput(_, _)
skipToNextAvailableInput(consumed, next) ==
  IF next <= Len(consumed) /\ consumed[next]
  THEN skipToNextAvailableInput(consumed, next + 1) ELSE next

RECURSIVE CollectVariadic(_, _)
CollectVariadic(from, acc) ==
  IF acc.next > Len(from) THEN acc
  ELSE IF from[acc.next].name # "" THEN [acc EXCEPT !.failed = TRUE]
  ELSE LET c2 == [acc.consumed EXCEPT ![acc.next] = TRUE] IN
       CollectVariadic(from,
         [acc EXCEPT !.variadicArgs = Append(@, acc.next - 1), !.consumed = c2,
                     !.next = skipToNextAvailableInput(c2, acc.next)])

RECURSIVE MatchRest(_, _, _, _, _)
MatchRest(from, to, i, acc, mandatory) ==
  IF acc.failed \/ i > Len(to) THEN acc
  ELSE IF acc.sources[i] # Unassigned THEN MatchRest(from, to, i + 1, acc, mandatory)
  ELSE IF to[i].vararg THEN
    LET a2 == CollectVariadic(from, acc) IN
    MatchRest(from, to, i + 1, [a2 EXCEPT !.sources[i] = FirstVariadic], mandatory)
  ELSE IF acc.next > Len(from) THEN
    (IF to[i].init # "None"
     THEN MatchRest(from, to, i + 1,
                    [acc EXCEPT !.sources[i] = DefaultInitialize], mandatory)
     ELSE [acc EXCEPT !.failed = TRUE])
  ELSE IF from[acc.next].name # "" /\ (mandatory \/ to[i].name # "")
    THEN [acc EXCEPT !.failed = TRUE]
  ELSE LET c2 == [acc.consumed EXCEPT ![acc.next] = TRUE] IN
       MatchRest(from, to, i + 1,
         [acc EXCEPT !.sources[i] = acc.next - 1, !.consumed = c2,
                     !.next = skipToNextAvailableInput(c2, acc.next)], mandatory)

computeTupleShuffle(from, to, mandatory) ==
  LET a0 == [sources |-> [i \in 1..Len(to) |-> Unassigned],
             consumed |-> [j \in 1..Len(from) |-> FALSE],
             variadicArgs |-> <<>>, next |-> 1, failed |-> FALSE]
      a1 == MatchNamed(from, to, 1, a0)
      a2 == MatchRest(from, to, 1,
                      [a1 EXCEPT !.next = skipToNextAvailableInput(a1.consumed, 1)],
                      mandatory)
  IN [failed |-> a2.failed \/ a2.next <= Len(from),
      sources |-> [i \in 1..Len(to) |-> a2.sources[i]],
      variadicArgs |-> a2.variadicArgs]

---------------------------------------------------------------------------
(* Declarations.                                                           *)

\* A declaration: kind is "func", "ctor", "var" or "enumelt"; container is
\* the declared type of its context (NoType at module level); generic says
\* that the container is an unspecialized generic type; ty is the type of a
\* checked reference to it; substTy and substContainer are what the base
\* conversion makes of ty and of the container.
Decl(name, kind, container, generic, instance, ty, natArgs, substTy, substContainer) ==
  [name |-> name, kind |-> kind, container |-> container, generic |-> generic,
   instance |-> instance, ty |-> ty, natArgs |-> natArgs,
   substTy |-> substTy, substContainer |-> substContainer]

NoDecl == Decl("none", "none", NoType, FALSE, FALSE, NoType, 0, NoType, NoType)

\* TypeChecker::buildCheckedRefExpr
buildCheckedRefExpr(member, origin) ==
  [k |-> "DeclRefExpr", ty |-> member.ty, sub |-> <<>>,
   id |-> <<"w", "DeclRefExpr", origin>>, x |-> member]

\* findDefaultArgsOwner: no owner for a locator without anchor or path.
findDefaultArgsOwner(S, locator) ==
  IF locator.path = <<>> \/ locator.anchor = NullId THEN NoDecl
  ELSE IF locator \in DOMAIN S.owners THEN S.owners[locator]
  ELSE NoDecl

\* AbstractFunctionDecl::getDefaultArg(index): the kind and the type of the
\* default argument of the parameter at index.
getDefaultArg(owner, index) ==
  LET params == desugar(desugar(owner.ty)[2])[2] IN
  IF index < Len(params)
  THEN <<params[index + 1].init, params[index + 1].ty>>
  ELSE <<"None", NoType>>

\* A getCallerDefaultArg that leaves every default to the callee.
getCalleeDefaultArg(owner, index, origin) == Null

\* getCallerDefaultArg: Null when the callee provides the default.
getCallerDefaultArg(owner, index, origin) ==
  LET defArg == getDefaultArg(owner, index) IN
  CASE defArg[1] = "None" -> Crash
    [] defArg[1] = "Normal" -> Null
    [] OTHER -> [k |-> "MagicIdentifierLiteralExpr", ty |-> defArg[2], sub |-> <<>>,
                 id |-> <<"w", "MagicIdentifierLiteralExpr", origin>>,
                 x |-> defArg[1]]

\* Expr::getSemanticsProvidingExpr, and the loops over the parentheses
\* around a tuple expression.
RECURSIVE getSemanticsProvidingExpr(_)
getSemanticsProvidingExpr(e) ==
  IF e.k = "ParenExpr" THEN getSemanticsProvidingExpr(e.sub[1]) ELSE e

RECURSIVE setParenTypes(_, _, _)
setParenTypes(e, inner, ty) ==
  IF e.k = "ParenExpr"
  THEN [e EXCEPT !.ty = ty, !.sub = <<setParenTypes(e.sub[1], inner, ty)>>]
  ELSE setType(inner, ty)

\* hasMandatoryTupleLabels
hasMandatoryTupleLabels(e) == getSemanticsProvidingExpr(e).k = "TupleExpr"

\* The fields of the tuple type behind t.
getFields(t) == desugar(t)[2]

\* TypeChecker::conformsToProtocol, as the program under check declares it.
conformsToProtocol(S, t, proto) == <<getCanonicalType(t), proto>> \in S.env.conformances

\* new (tc.Context) ErasureExpr(expr, toType, conformances)
ErasureExpr(e, toType) == Node("ErasureExpr", toType, <<e>>, <<>>)

\* ExprRewriter::coerceExistential
coerceExistential(S, expr, toType) ==
  IF ~is(toType, "exist") THEN Crash
  ELSE IF S.env.asserts /\ ~conformsToProtocol(S, expr.ty, getCanonicalType(toType)[2])
       THEN Crash
  ELSE ErasureExpr(expr, toType)

\* TypeChecker::buildArrayInjectionFnRef
buildArrayInjectionFnRef(S, sliceType) ==
  IF S.env.injectionFn
  THEN [k |-> "DeclRefExpr", ty |-> Function(BuiltinInteger(64), sliceType, "plain"),
        sub |-> <<>>, id |-> <<"w", "InjectionFn", NullId>>, x |-> NoDecl]
  ELSE Null

---------------------------------------------------------------------------
(* Coercion.  Every operator takes the solution S first and a recursion    *)
(* budget last.                                                            *)


\* The conversion nodes coerceToType creates.
LoadExpr(e, ty) == Node("LoadExpr", ty, <<e>>, <<>>)
RequalifyExpr(e, ty) == Node("RequalifyExpr", ty, <<e>>, <<>>)
MaterializeExpr(e, ty) == Node("MaterializeExpr", ty, <<e>>, <<>>)
ArchetypeToSuperExpr(e, ty) == Node("ArchetypeToSuperExpr", ty, <<e>>, <<>>)
DerivedToBaseExpr(e, ty) == Node("DerivedToBaseExpr", ty, <<e>>, <<>>)
AutoClosureExpr(e, ty) == Node("AutoClosureExpr", ty, <<e>>, <<>>)
BridgeToBlockExpr(e, ty) == Node("BridgeToBlockExpr", ty, <<e>>, <<>>)
FunctionConversionExpr(e, ty) == Node("FunctionConversionExpr", ty, <<e>>, <<>>)
\* An injection that keeps the type of the value it wraps.
InjectIntoOptionalExprOfValueType(e, ty) ==
  Node("InjectIntoOptionalExpr", e.ty, <<e>>, <<>>)
InjectIntoOptionalExpr(e, ty) == Node("InjectIntoOptionalExpr", ty, <<e>>, <<>>)
MetatypeConversionExpr(e, ty) == Node("MetatypeConversionExpr", ty, <<e>>, <<>>)

RECURSIVE recurse(_, _)

\* One iteration of the loop over the destination fields of
\* coerceTupleToTuple; c holds the arguments of the call, st the locals.
TupleDestStep(S, c, st, i, fuel) ==
  LET toElt == c.to[i]
      src == st.sources[i]
      stop(r) == [st EXCEPT !.stop = TRUE, !.res = r]
  IN
  IF src = DefaultInitialize THEN
    LET owner == findDefaultArgsOwner(S, c.locator)
        defArg == getCallerDefaultArg(owner, i - 1, c.expr.id)
    IN IF owner = NoDecl THEN stop(Crash)
       ELSE IF Stopped(defArg) THEN stop(Crash)
       ELSE [st EXCEPT !.owner = owner, !.anythingShuffled = TRUE,
                       !.hasInits = TRUE, !.toSugarFields = Append(@, toElt),
                       !.callerDefaultArgs =
                          IF IsNull(defArg) THEN @ ELSE Append(@, defArg),
                       !.sources[i] =
                          IF IsNull(defArg) THEN @ ELSE CallerDefaultInitialize]
  ELSE IF src = FirstVariadic THEN
    IF S.env.asserts /\ i # Len(c.to) THEN stop(Crash)
    ELSE [st EXCEPT !.toSugarFields = Append(@, toElt), !.hasVarArg = TRUE,
                    !.anythingShuffled = TRUE]
  ELSE
    LET fromElt == c.from[src + 1]
        shuffled == st.anythingShuffled \/ src # i - 1
    IN
    IF isEqual(fromElt.ty, toElt.ty) THEN
      [st EXCEPT !.anythingShuffled = shuffled,
                 !.toSugarFields = Append(@,
                    TupleTypeElt(IF c.hasTupleExpr THEN st.elems[src + 1].ty
                                 ELSE fromElt.ty,
                                 toElt.name, toElt.init, toElt.vararg)),
                 !.fromTupleExprFields[src + 1] = fromElt,
                 !.hasInits = @ \/ toElt.init # "None"]
    ELSE IF ~c.hasTupleExpr THEN stop(Null)
    ELSE
      LET convertedElt ==
            recurse("coerceToType", <<S, st.elems[src + 1], toElt.ty,
                         withPathElement(c.locator, <<"TupleElement", src>>), fuel>>)
      IN IF ~IsExpr(convertedElt) THEN stop(convertedElt)
         ELSE [st EXCEPT !.anythingShuffled = shuffled,
                         !.elems[src + 1] = convertedElt,
                         !.toSugarFields = Append(@,
                            TupleTypeElt(convertedElt.ty, toElt.name, toElt.init,
                                         toElt.vararg)),
                         !.fromTupleExprFields[src + 1] =
                            TupleTypeElt(convertedElt.ty, fromElt.name,
                                         fromElt.init, fromElt.vararg),
                         !.hasInits = @ \/ toElt.init # "None"]

TupleDestLoop(S, c, st, i, fuel) ==
  IF st.stop \/ i > Len(c.to) THEN st
  ELSE recurse("TupleDestLoop", <<S, c, recurse("TupleDestStep", <<S, c, st, i, fuel>>), i + 1, fuel>>)

\* An iteration of the loop over variadicArgs that records no source index.
TupleVariadicStepUnrecorded(S, c, st, fromFieldIdx, fuel) ==
  [st EXCEPT !.fromTupleExprFields[fromFieldIdx + 1] = c.from[fromFieldIdx + 1]]

\* One iteration of the loop over variadicArgs.
TupleVariadicStep(S, c, st, fromFieldIdx, fuel) ==
  LET toEltType == getVarargBaseTy(c.to[Len(c.to)])
      fromElt == c.from[fromFieldIdx + 1]
  IN
  IF isEqual(toEltType, fromElt.ty) THEN
    [st EXCEPT !.sources = Append(@, fromFieldIdx),
               !.fromTupleExprFields[fromFieldIdx + 1] = fromElt]
  ELSE IF ~c.hasTupleExpr THEN [st EXCEPT !.stop = TRUE, !.res = Null]
  ELSE
    LET convertedElt ==
          recurse("coerceToType", <<S, st.elems[fromFieldIdx + 1], toEltType,
                       withPathElement(c.locator, <<"TupleElement", fromFieldIdx>>),
                       fuel>>)
    IN IF ~IsExpr(convertedElt) THEN [st EXCEPT !.stop = TRUE, !.res = convertedElt]
       ELSE [st EXCEPT !.elems[fromFieldIdx + 1] = convertedElt,
                       !.sources = Append(@, fromFieldIdx),
                       !.fromTupleExprFields[fromFieldIdx + 1] =
                          TupleTypeElt(convertedElt.ty, fromElt.name,
                                       fromElt.init, fromElt.vararg)]

TupleVariadicLoop(S, c, st, j, fuel) ==
  IF st.stop \/ j > Len(c.variadicArgs) THEN st
  ELSE recurse("TupleVariadicLoop", <<S, c,
         recurse("TupleVariadicStep", <<S, c, st, c.variadicArgs[j], fuel>>), j + 1, fuel>>)

\* new (tc.Context) TupleShuffleExpr(expr, mapping, owner, callerDefaultArgs, ty)
TupleShuffleExpr(e, mapping, owner, callerDefaultArgs, ty, injectionFn) ==
  Node("TupleShuffleExpr", ty, <<e>>,
       [mapping |-> mapping, owner |-> owner,
        callerDefaultArgs |-> callerDefaultArgs, injectionFn |-> injectionFn])

\* ExprRewriter::coerceTupleToTuple
coerceTupleToTuple(S, expr, toTuple, locator, sources, variadicArgs, fuel) ==
  LET innerExpr == getSemanticsProvidingExpr(expr)
      hasTupleExpr == innerExpr.k = "TupleExpr"
      c == [expr |-> expr, from |-> getFields(expr.ty), to |-> getFields(toTuple),
            locator |-> locator, hasTupleExpr |-> hasTupleExpr,
            variadicArgs |-> variadicArgs]
      st0 == [sources |-> sources, toSugarFields |-> <<>>,
              fromTupleExprFields |->
                 [j \in 1..Len(c.from) |-> TupleTypeElt(NoType, "", "None", FALSE)],
              elems |-> IF hasTupleExpr THEN innerExpr.sub ELSE <<>>,
              callerDefaultArgs |-> <<>>, owner |-> NoDecl, hasVarArg |-> FALSE,
              anythingShuffled |-> FALSE, hasInits |-> FALSE,
              stop |-> FALSE, res |-> Null]
      st1 == recurse("TupleDestLoop", <<S, c, st0, 1, fuel>>)
      st2 == IF ~st1.stop /\ st1.hasVarArg
             THEN recurse("TupleVariadicLoop", <<S, c, st1, 1, fuel>>) ELSE st1
      lastTy == c.to[Len(c.to)].ty
      injectionFn == IF st2.hasVarArg THEN buildArrayInjectionFnRef(S, lastTy)
                     ELSE Null
      fromTupleType == Tuple(st2.fromTupleExprFields)
      toSugarType == IF st2.hasInits THEN toTuple ELSE Tuple(st2.toSugarFields)
      newInner == [innerExpr EXCEPT !.sub = st2.elems]
  IN
  IF st2.stop THEN st2.res
  ELSE IF st2.hasVarArg /\ Kind(lastTy) # "slice" THEN Crash
  ELSE IF st2.hasVarArg /\ IsNull(injectionFn) THEN Null
  ELSE IF ~st2.anythingShuffled /\ hasTupleExpr
       THEN setParenTypes(expr, newInner, toSugarType)
  ELSE TupleShuffleExpr(
         IF hasTupleExpr THEN setParenTypes(expr, newInner, fromTupleType) ELSE expr,
         st2.sources, st2.owner, st2.callerDefaultArgs, toSugarType, injectionFn)

\* new (tc.Context) ScalarToTupleExpr(expr, ty, elements, injectionFn)
ScalarToTupleExpr(e, ty, elements, injectionFn) ==
  Node("ScalarToTupleExpr", ty, <<e>>,
       [elements |-> elements, injectionFn |-> injectionFn])

\* ExprRewriter::coerceScalarToTuple
coerceScalarToTuple(S, expr0, toTuple, toScalarIdx, locator, fuel) ==
  LET fields == getFields(toTuple)
      n == Len(fields)
      lastField == fields[n]
      injectionFn == IF lastField.vararg
                     THEN buildArrayInjectionFnRef(S, lastField.ty) ELSE Null
      field == fields[toScalarIdx + 1]
      toScalarType == IF field.vararg THEN getVarargBaseTy(field) ELSE field.ty
      expr == recurse("coerceToType", <<S, expr0, toScalarType,
                           withPathElement(locator, <<"ScalarToTuple">>), fuel>>)
      hasInit == \E i \in 1..n : fields[i].init # "None"
      sugarFields ==
        [i \in 1..n |->
           IF i # toScalarIdx + 1 THEN fields[i]
           ELSE IF fields[i].vararg
                THEN TupleTypeElt(fields[i].ty, fields[i].name, fields[i].init, TRUE)
                ELSE TupleTypeElt(expr.ty, fields[i].name, "None", FALSE)]
      others == {i \in 1..n : i # toScalarIdx + 1 /\ ~fields[i].vararg}
      owner == findDefaultArgsOwner(S, locator)
      elements ==
        [i \in 1..n |->
           IF i = toScalarIdx + 1 \/ fields[i].vararg THEN Null
           ELSE LET defArg == getCallerDefaultArg(owner, i - 1, expr.id) IN
                IF IsNull(defArg)
                THEN [Null EXCEPT !.k = "DefaultArgsOwner", !.x = owner.name]
                ELSE defArg]
      destSugarTy == IF hasInit THEN toTuple ELSE Tuple(sugarFields)
  IN
  IF n = 0 \/ toScalarIdx < 0 \/ toScalarIdx >= n THEN Crash
  ELSE IF lastField.vararg /\ Kind(lastField.ty) # "slice" THEN Crash
  ELSE IF lastField.vararg /\ IsNull(injectionFn) THEN Null
  ELSE IF ~IsExpr(expr) THEN expr
  ELSE IF S.env.asserts /\ ~hasInit /\ ~fields[toScalarIdx + 1].vararg
          /\ ~isEqual(expr.ty, fields[toScalarIdx + 1].ty) THEN Crash
  ELSE IF \E i \in others : fields[i].init = "None" THEN Crash
  ELSE IF others # {} /\ owner = NoDecl THEN Crash
  ELSE ScalarToTupleExpr(expr, destSugarTy, elements, injectionFn)

---------------------------------------------------------------------------
(* Substitutions.                                                          *)

\* The type variables of a type, in the order transformType meets them.
RECURSIVE typeVariablesOf(_)
typeVariablesOf(t) ==
  CASE Kind(t) = "tv" -> <<t>>
    [] Kind(t) \in {"lv", "meta", "opt", "slice"} -> typeVariablesOf(t[2])
    [] Kind(t) \in {"subst", "alias"} -> typeVariablesOf(t[3])
    [] Kind(t) = "fn" -> typeVariablesOf(t[2]) \o typeVariablesOf(t[3])
    [] Kind(t) = "poly" -> typeVariablesOf(t[3]) \o typeVariablesOf(t[4])
    [] Kind(t) = "tuple" ->
         LET RECURSIVE cat(_)
             cat(i) == IF i > Len(t[2]) THEN <<>>
                       ELSE typeVariablesOf(t[2][i].ty) \o cat(i + 1)
         IN cat(1)
    [] OTHER -> <<>>

\* The lambda of specialize and computeSubstitutions, applied by
\* transformType: a type variable becomes the substituted type of its
\* archetype and its fixed type; a replaced type is not entered again.
RECURSIVE substituteTypeVariables(_, _)
substituteTypeVariables(S, t) ==
  CASE Kind(t) = "tv" -> Substituted(Archetype(t[3]), getFixedType(S, t))
    [] Kind(t) = "lv" -> LValue(substituteTypeVariables(S, t[2]), t[3])
    [] Kind(t) \in {"meta", "opt", "slice"} ->
         <<Kind(t), substituteTypeVariables(S, t[2])>>
    [] Kind(t) = "subst" -> Substituted(t[2], substituteTypeVariables(S, t[3]))
    [] Kind(t) = "alias" -> NameAlias(t[2], substituteTypeVariables(S, t[3]))
    [] Kind(t) = "fn" ->
         Function(substituteTypeVariables(S, t[2]),
                  substituteTypeVariables(S, t[3]), t[4])
    [] Kind(t) = "poly" ->
         PolymorphicFunction(t[2], substituteTypeVariables(S, t[3]),
                             substituteTypeVariables(S, t[4]))
    [] Kind(t) = "tuple" ->
         Tuple([i \in 1..Len(t[2]) |->
                  [t[2][i] EXCEPT !.ty = substituteTypeVariables(S, t[2][i].ty)]])
    [] OTHER -> t

\* A specialize that records the first type variable it meets and no other.
recordFirstSubstitution(S, tvs, i) ==
  IF Len(tvs) = 0 THEN <<>> ELSE <<<<tvs[1][3], getFixedType(S, tvs[1])>>>>

\* substitutions[archetype] = simplified, for each type variable in turn:
\* a later assignment to the same archetype overwrites an earlier one.
RECURSIVE recordSubstitutions(_, _, _)
recordSubstitutions(S, tvs, i) ==
  IF i > Len(tvs) THEN <<>>
  ELSE LET rest == recordSubstitutions(S, tvs, i + 1) IN
       IF \E j \in 1..Len(rest) : rest[j][1] = tvs[i][3] THEN rest
       ELSE <<<<tvs[i][3], getFixedType(S, tvs[i])>>>> \o rest

\* The keys of a substitution map.
substitutionKeys(subs) == {subs[j][1] : j \in 1..Len(subs)}

\* Solution::computeSubstitutions: [failed, type, substitutions]
computeSubstitutions(S, polyFn, openedType) ==
  LET tvs == typeVariablesOf(openedType) IN
  [failed |-> ~S.env.checkSubstitutions,
   unbound |-> \E j \in 1..Len(tvs) : tvs[j][2] \notin DOMAIN S.bind,
   type |-> substituteTypeVariables(S, openedType),
   substitutions |-> recordSubstitutions(S, tvs, 1)]

\* new (tc.Context) SpecializeExpr(expr, type, encodedSubs)
SpecializeExpr(e, ty, subs) == Node("SpecializeExpr", ty, <<e>>, subs)

\* Solution::specialize
specialize(S, expr, polyFn, openedType) ==
  LET r == computeSubstitutions(S, polyFn, openedType) IN
  IF r.unbound THEN Crash
  ELSE IF r.failed THEN Null
  ELSE SpecializeExpr(expr, r.type, r.substitutions)

---------------------------------------------------------------------------
(* coerceToType and the operations it is mutually recursive with.          *)

\* The restriction switch of coerceToType (the solver recorded what to do).
applyRestriction(S, kind, expr, toType, locator, fuel) ==
  LET fromType == expr.ty IN
  CASE kind = "TupleToTuple" -> Crash
    [] kind = "ScalarToTuple" ->
         IF ~is(toType, "tuple") THEN Crash
         ELSE recurse("coerceScalarToTuple", <<S, expr, toType, getFieldForScalarInit(toType),
                                  locator, fuel>>)
    [] kind = "Superclass" ->
         IF is(fromType, "arch")
         THEN LET up == ArchetypeToSuperExpr(expr, getSuperClassOf(fromType)) IN
              IF isEqual(up.ty, toType) THEN up ELSE DerivedToBaseExpr(up, toType)
         ELSE DerivedToBaseExpr(expr, toType)
    [] kind = "Existential" -> coerceExistential(S, expr, toType)
    [] kind = "ValueToOptional" ->
         IF ~is(toType, "opt") THEN Crash
         ELSE LET e == recurse("coerceToType", <<S, expr, desugar(toType)[2], locator, fuel>>) IN
              IF ~IsExpr(e) THEN e ELSE InjectIntoOptionalExpr(e, toType)
    [] kind = "User" -> recurse("coerceViaUserConversion", <<S, expr, toType, locator, fuel>>)

\* The walk up the superclass chain of coerceToType: TRUE when toType is a
\* proper superclass of t.
RECURSIVE hasSuperClass(_, _)
hasSuperClass(t, toType) ==
  LET sup == getSuperClassOf(t) IN
  sup # NoType /\ (isEqual(sup, toType) \/ hasSuperClass(sup, toType))

\* Coercions to function type.
coerceToFunction(S, expr, toType, locator, fuel) ==
  LET toFunc == desugar(toType)
      fromIsFn == is(expr.ty, "fn")
  IN
  IF toFunc[4] = "auto" THEN
    LET e == recurse("coerceToType", <<S, expr, toFunc[3],
                          withPathElement(locator, <<"Load">>), fuel>>) IN
    IF Stopped(e) THEN e
    ELSE IF IsNull(e) THEN Crash
    ELSE AutoClosureExpr(e, toType)
  ELSE IF toFunc[4] = "block" /\ (~fromIsFn \/ desugar(expr.ty)[4] # "block") THEN
    LET e == recurse("coerceToType", <<S, expr, Function(toFunc[2], toFunc[3], "plain"),
                          locator, fuel>>) IN
    IF Stopped(e) THEN e ELSE BridgeToBlockExpr(e, toType)
  ELSE FunctionConversionExpr(expr, toType)

\* A coerceToType that looks up the recorded restriction before it compares
\* the types.
coerceToTypeRestrictionFirst(S, expr, toType, locator, fuel) ==
  LET restriction == knownRestriction(S, expr.ty, toType) IN
  IF fuel <= 0 THEN Diverge
  ELSE IF restriction # "none"
    THEN recurse("applyRestriction", <<S, restriction, expr, toType, locator, fuel - 1>>)
  ELSE IF isEqual(expr.ty, toType) THEN expr
  ELSE recurse("coerceViaUserConversion", <<S, expr, toType, locator, fuel - 1>>)

\* ExprRewriter::coerceToType
coerceToType(S, expr, toType, locator, fuel) ==
  LET fromType == expr.ty
      restriction == knownRestriction(S, fromType, toType)
      shuffle == computeTupleShuffle(getFields(fromType), getFields(toType),
                                     hasMandatoryTupleLabels(expr))
      toScalarIdx == getFieldForScalarInit(toType)
      fromLValue == desugar(fromType)
  IN
  IF fuel <= 0 THEN Diverge
  ELSE IF Stopped(expr) THEN expr
  ELSE IF IsNull(expr) THEN Crash
  ELSE IF isEqual(fromType, toType) THEN expr
  ELSE IF restriction # "none"
    THEN recurse("applyRestriction", <<S, restriction, expr, toType, locator, fuel - 1>>)
  ELSE IF is(toType, "tuple") /\ is(fromType, "tuple") /\ ~shuffle.failed
    THEN recurse("coerceTupleToTuple", <<S, expr, toType, locator, shuffle.sources,
                            shuffle.variadicArgs, fuel - 1>>)
  ELSE IF is(toType, "tuple") /\ toScalarIdx # -1
    THEN recurse("coerceScalarToTuple", <<S, expr, toType, toScalarIdx, locator, fuel - 1>>)
  ELSE IF is(fromType, "lv") THEN
    LET super == expr.k = "SuperRefExpr"
        objTy == IF super THEN getRValueType(toType) ELSE fromLValue[2]
        e0 == IF super THEN setType(expr, LValue(objTy, fromLValue[3])) ELSE expr
        e1 == IF is(toType, "lv")
              THEN RequalifyExpr(e0, LValue(objTy, desugar(toType)[3]))
              ELSE LoadExpr(e0, objTy)
    IN recurse("coerceToType", <<S, e1, toType, locator, fuel - 1>>)
  ELSE IF is(toType, "lv") THEN
    LET e == recurse("coerceToType", <<S, expr, desugar(toType)[2], locator, fuel - 1>>) IN
    IF ~IsExpr(e) THEN e ELSE MaterializeExpr(e, toType)
  ELSE IF mayHaveSuperclass(fromType) /\ getClassOrBoundGenericClass(toType)
          /\ hasSuperClass(fromType, toType) THEN
    (IF is(fromType, "arch")
     THEN LET up == ArchetypeToSuperExpr(expr, getSuperClassOf(fromType)) IN
          IF isEqual(up.ty, toType) THEN up ELSE DerivedToBaseExpr(up, toType)
     ELSE DerivedToBaseExpr(expr, toType))
  ELSE IF is(toType, "fn")
          /\ (desugar(toType)[4] # "plain" \/ is(fromType, "fn"))
    THEN recurse("coerceToFunction", <<S, expr, toType, locator, fuel - 1>>)
  ELSE IF is(toType, "exist") THEN coerceExistential(S, expr, toType)
  ELSE IF is(toType, "opt") THEN
    LET e == recurse("coerceToType", <<S, expr, desugar(toType)[2], locator, fuel - 1>>) IN
    IF ~IsExpr(e) THEN e ELSE InjectIntoOptionalExpr(e, toType)
  ELSE IF getNominalOrBoundGenericNominal(fromType) \/ is(fromType, "arch")
          \/ getNominalOrBoundGenericNominal(toType) \/ is(toType, "arch")
    THEN recurse("coerceViaUserConversion", <<S, expr, toType, locator, fuel - 1>>)
  ELSE IF is(fromType, "meta") /\ is(toType, "meta")
    THEN MetatypeConversionExpr(expr, desugar(toType))
  ELSE Crash

\* A coerceObjectArgumentToType that passes every object by value.
coerceObjectArgumentByValue(S, expr, toType, locator, fuel) ==
  IF IsNull(expr) THEN Crash
  ELSE recurse("coerceToType", <<S, expr, getRValueType(toType), locator, fuel>>)

\* ExprRewriter::coerceObjectArgumentToType
coerceObjectArgumentToType(S, expr, toType, locator, fuel) ==
  LET containerType == getRValueType(toType)
      destType == LValue(containerType, "member")
      fromType == expr.ty
  IN
  IF IsNull(expr) THEN Crash
  ELSE IF hasReferenceSemantics(containerType) \/ is(containerType, "meta")
    THEN recurse("coerceToType", <<S, expr, containerType, locator, fuel>>)
  ELSE IF isEqual(fromType, destType) THEN expr
  ELSE IF is(fromType, "lv") THEN
    (IF isEqual(desugar(fromType)[2], containerType)
     THEN RequalifyExpr(expr, destType)
     ELSE LET e == recurse("coerceToType", <<S, expr, containerType, locator, fuel>>) IN
          IF Stopped(e) THEN e ELSE MaterializeExpr(e, destType))
  ELSE MaterializeExpr(expr, destType)

\* The apply nodes: sub = <<fn, arg>>.
CallExpr(fn, arg) == Node("CallExpr", NoType, <<fn, arg>>, <<>>)
\* A self application built as an ordinary call.
OrdinaryCallOfSelf(fn, base) == Node("CallExpr", NoType, <<fn, base>>, <<>>)
DotSyntaxCallExpr(fn, base) == Node("DotSyntaxCallExpr", NoType, <<fn, base>>, <<>>)
ConstructorRefCallExpr(fn, base) ==
  Node("ConstructorRefCallExpr", NoType, <<fn, base>>, <<>>)
SelfApplyKinds == {"DotSyntaxCallExpr", "ConstructorRefCallExpr"}
ApplyKinds == SelfApplyKinds \cup {"CallExpr", "BinaryExpr", "PrefixUnaryExpr"}

\* new (context) DotSyntaxBaseIgnoredExpr(base, dotLoc, ref): typed as ref.
DotSyntaxBaseIgnoredExpr(base, ref) ==
  [k |-> "DotSyntaxBaseIgnoredExpr", ty |-> ref.ty, sub |-> <<base, ref>>,
   id |-> <<"w", "DotSyntaxBaseIgnoredExpr", base.id>>, x |-> <<>>]

\* ExprRewriter::finishApply
finishApply(S, apply, openedType, locator, fuel) ==
  LET fn == coerceToRValue(apply.sub[1])
      origArg == apply.sub[2]
      fnType == desugar(fn.ty)
      arg == IF apply.k \in SelfApplyKinds
             THEN recurse("coerceObjectArgumentToType", <<S, origArg, fnType[2], NoLocator, fuel - 1>>)
             ELSE recurse("coerceToType", <<S, origArg, fnType[2],
                               withPathElement(locator, <<"ApplyArgument">>), fuel - 1>>)
      applied == [apply EXCEPT !.sub = <<fn, arg>>, !.ty = fnType[3]]
      ty == fnType[2]
      ctorLocator == withPathElement(locator, <<"ConstructorMember">>)
      selected == getOverloadChoice(S, ctorLocator)
      declRef == recurse("buildMemberRef", <<S, fn, selected.decl, selected.opened, locator,
                                fuel - 1>>)
  IN
  IF fuel <= 0 THEN Diverge
  ELSE IF Stopped(fn) THEN fn
  ELSE IF IsNull(origArg) THEN Crash
  ELSE IF Kind(fnType) = "fn" THEN
    (IF ~IsExpr(arg) THEN arg
     ELSE IF is(applied.ty, "poly")
          THEN specialize(S, applied, desugar(applied.ty), openedType)
     ELSE applied)
  ELSE IF Kind(fnType) # "meta" THEN Crash
  ELSE IF is(ty, "tuple") THEN recurse("coerceToType", <<S, origArg, desugar(ty), locator, fuel - 1>>)
  ELSE IF S.env.asserts /\ ~getNominalOrBoundGenericNominal(ty) THEN Crash
  ELSE IF ~hasOverloadChoice(S, ctorLocator) \/ selected.kind = "IdentityFunction"
    THEN recurse("coerceToType", <<S, origArg, ty, locator, fuel - 1>>)
  ELSE IF Stopped(declRef) THEN declRef
  ELSE IF IsNull(declRef) THEN Crash
  ELSE recurse("finishApply", <<S, [apply EXCEPT !.sub = <<declRef, origArg>>], openedType,
                   locator, fuel - 1>>)

\* ExprRewriter::coerceViaUserConversion
coerceViaUserConversion(S, expr, toType, locator, fuel) ==
  LET convLocator == withPathElement(locator, <<"ConversionMember">>)
      ctorLocator == withPathElement(locator, <<"ConstructorMember">>)
      conv == getOverloadChoice(S, convLocator)
      memberRef == recurse("buildMemberRef", <<S, expr, conv.decl, conv.opened, locator, fuel - 1>>)
      args == [k |-> "TupleExpr", ty |-> Tuple(<<>>), sub |-> <<>>,
               id |-> <<"w", "TupleExpr", expr.id>>, x |-> <<>>]
      called == recurse("finishApply", <<S, CallExpr(memberRef, args), desugar(conv.opened)[3],
                            Locator(CallExpr(memberRef, args).id, <<>>), fuel - 1>>)
      ctor == getOverloadChoice(S, ctorLocator)
      typeBase == [k |-> "MetatypeExpr", ty |-> MetaType(toType), sub |-> <<>>,
                   id |-> <<"w", "MetatypeExpr", expr.id>>, x |-> <<>>]
      declRef == recurse("buildMemberRef", <<S, typeBase, ctor.decl, ctor.opened, ctorLocator,
                                fuel - 1>>)
      built == recurse("finishApply", <<S, CallExpr(declRef, expr), toType, locator, fuel - 1>>)
  IN
  IF hasOverloadChoice(S, convLocator) THEN
    (IF Stopped(memberRef) THEN memberRef
     ELSE IF ~is(conv.opened, "fn") THEN Crash
     ELSE IF ~IsExpr(called) THEN called
     ELSE recurse("coerceToType", <<S, called, toType, locator, fuel - 1>>))
  ELSE IF ~hasOverloadChoice(S, ctorLocator) THEN Crash
  ELSE IF ctor.kind = "IdentityFunction"
    THEN recurse("coerceToType", <<S, expr, toType,
                      withPathElement(locator, <<"ApplyArgument">>), fuel - 1>>)
  ELSE IF Stopped(declRef) THEN declRef
  ELSE IF ~IsExpr(built) THEN built
  ELSE recurse("coerceToType", <<S, built, toType, locator, fuel - 1>>)

\* new (context) MemberRefExpr / ExistentialMemberRefExpr /
\* ArchetypeMemberRefExpr (base, dotLoc, member, memberLoc)
MemberRefExpr(kind, base, member, ty) == Node(kind, ty, <<base>>, member)

\* ExprRewriter::buildMemberRef
buildMemberRef(S, base, member, openedType, locator, fuel) ==
  LET baseTy0 == getRValueType(base.ty)
      baseIsInstance == ~is(baseTy0, "meta")
      baseTy == IF baseIsInstance THEN baseTy0 ELSE desugar(baseTy0)[2]
      containerTy == member.container
      baseLocator == withPathElement(locator, <<"MemberRefBase">>)
      isCallable == member.kind \in {"func", "enumelt", "ctor"}
      \* member references into an archetype or existential
      protoBase == IF baseIsInstance
                   THEN recurse("coerceObjectArgumentToType", <<S, base, baseTy, baseLocator,
                                                   fuel - 1>>)
                   ELSE coerceToRValue(base)
      protoKind == IF is(baseTy, "exist") THEN "ExistentialMemberRefExpr"
                   ELSE "ArchetypeMemberRefExpr"
      memberResultTy == desugar(member.ty)[IF Kind(desugar(member.ty)) = "poly"
                                           THEN 4 ELSE 3]
      \* members of a generic type
      genericBase ==
        IF baseIsInstance
        THEN recurse("coerceObjectArgumentToType", <<S, base, member.substContainer,
                                        baseLocator, fuel - 1>>)
        ELSE LET b == recurse("coerceToType", <<S, base, MetaType(member.substContainer),
                                   baseLocator, fuel - 1>>)
             IN IF IsNull(b) THEN Null ELSE coerceToRValue(b)
      specializedRef ==
        SpecializeExpr(buildCheckedRefExpr(member, base.id), member.substTy, <<>>)
      \* the other members
      varBase == recurse("coerceObjectArgumentToType", <<S, base, containerTy, NoLocator, fuel - 1>>)
      ref == buildCheckedRefExpr(member, base.id)
      ignored == DotSyntaxBaseIgnoredExpr(base, ref)
  IN
  IF fuel <= 0 THEN Diverge
  ELSE IF Stopped(base) THEN base
  ELSE IF IsNull(base) \/ member = NoDecl THEN Crash
  ELSE IF containerTy # NoType /\ is(containerTy, "exist")
          /\ (is(baseTy, "arch") \/ is(baseTy, "exist")) THEN
    (IF ~IsExpr(protoBase) THEN (IF IsNull(protoBase) THEN Crash ELSE protoBase)
     ELSE IF member.kind = "func" /\ Kind(desugar(member.ty)) \in {"fn", "poly"}
             /\ is(memberResultTy, "poly")
       THEN specialize(S, MemberRefExpr(protoKind, protoBase, member, memberResultTy),
                       desugar(memberResultTy), openedType)
     ELSE MemberRefExpr(protoKind, protoBase, member, simplifyType(S, openedType)))
  ELSE IF containerTy # NoType /\ member.generic THEN
    (IF ~IsExpr(genericBase)
       THEN (IF IsNull(genericBase) THEN Crash ELSE genericBase)
     ELSE IF isCallable THEN
       (IF member.kind = "ctor"
          THEN recurse("finishApply", <<S, ConstructorRefCallExpr(specializedRef, genericBase),
                           openedType, NoLocator, fuel - 1>>)
        ELSE IF ~baseIsInstance /\ member.instance
          THEN DotSyntaxBaseIgnoredExpr(genericBase, specializedRef)
        ELSE IF S.env.asserts /\ baseIsInstance /\ ~member.instance THEN Crash
        ELSE recurse("finishApply", <<S, DotSyntaxCallExpr(specializedRef, genericBase),
                         openedType, NoLocator, fuel - 1>>))
     ELSE MemberRefExpr("MemberRefExpr", genericBase, member, member.substTy))
  ELSE IF member.kind = "var" /\ ~is(baseTy, "module") THEN
    (IF S.env.asserts /\ ~baseIsInstance THEN Crash
     ELSE IF Stopped(varBase) THEN varBase
     ELSE MemberRefExpr("MemberRefExpr", varBase, member, simplifyType(S, openedType)))
  ELSE IF (member.kind = "func" /\ containerTy # NoType)
          \/ member.kind \in {"enumelt", "ctor"} THEN
    (IF member.kind = "ctor"
       THEN recurse("finishApply", <<S, ConstructorRefCallExpr(ref, base), openedType,
                        NoLocator, fuel - 1>>)
     ELSE IF baseIsInstance = member.instance
       THEN recurse("finishApply", <<S, DotSyntaxCallExpr(ref, base), openedType, NoLocator,
                        fuel - 1>>)
     ELSE IF S.env.asserts /\ baseIsInstance THEN Crash
     ELSE IF is(ignored.ty, "poly")
       THEN specialize(S, ignored, desugar(ignored.ty), openedType)
     ELSE ignored)
  ELSE IF is(ignored.ty, "poly")
    THEN specialize(S, ignored, desugar(ignored.ty), openedType)
  ELSE ignored

---------------------------------------------------------------------------
(* The program under check: its types, declarations and expressions.       *)

IntTy == Nominal("Int")
StrTy == Nominal("Str")
ClassB == Nominal("B")
ClassD == Nominal("D")
ArchT == Archetype("T")
ProtoP == Existential("P")
EmptyTuple == Tuple(<<>>)
Unnamed(ty) == TupleTypeElt(ty, "", "None", FALSE)
Named(n, ty) == TupleTypeElt(ty, n, "None", FALSE)

\* The conformances declared by the program.
Conformances == {<<IntTy, "P">>, <<ClassD, "P">>, <<ArchT, "P">>}

ScalarTypes ==
  {IntTy, StrTy, NameAlias("MyInt", IntTy), Substituted(ArchT, IntTy), ClassB, ClassD,
   ArchT, ProtoP, Optional(IntTy), Optional(ClassB),
   LValue(IntTy, "default"), LValue(IntTy, "member"), LValue(ClassD, "default"),
   LValue(StrTy, "default"), MetaType(ClassD), MetaType(ClassB),
   Function(IntTy, StrTy, "plain"), Function(IntTy, StrTy, "block"),
   Function(EmptyTuple, StrTy, "auto"), Function(IntTy, ProtoP, "plain")}

TupleTypes ==
  {Tuple(<<Unnamed(IntTy), Unnamed(StrTy)>>),
   Tuple(<<Named("a", IntTy), Named("b", StrTy)>>),
   Tuple(<<Named("b", StrTy), Named("a", IntTy)>>),
   Tuple(<<Unnamed(Optional(IntTy)), Unnamed(StrTy)>>),
   Tuple(<<Unnamed(IntTy), TupleTypeElt(StrTy, "s", "Normal", FALSE)>>),
   Tuple(<<Unnamed(IntTy), TupleTypeElt(IntTy, "line", "Line", FALSE)>>),
   Tuple(<<Unnamed(IntTy), TupleTypeElt(StrTy, "file", "File", FALSE),
           TupleTypeElt(StrTy, "s", "Normal", FALSE),
           TupleTypeElt(IntTy, "column", "Column", FALSE)>>),
   Tuple(<<Unnamed(IntTy), TupleTypeElt(ArraySlice(IntTy), "rest", "None", TRUE)>>),
   Tuple(<<Unnamed(StrTy), TupleTypeElt(ArraySlice(Optional(IntTy)), "", "None", TRUE)>>),
   Tuple(<<Named("x", IntTy)>>),
   Tuple(<<Unnamed(IntTy), Unnamed(IntTy), Unnamed(IntTy)>>),
   Tuple(<<Unnamed(ClassD), Unnamed(IntTy)>>),
   Tuple(<<Unnamed(ClassB), Unnamed(Optional(IntTy))>>),
   EmptyTuple}

\* An expression of the tree handed to the rewriter: node number n.
Orig(k, ty, sub, n, x) == [k |-> k, ty |-> ty, sub |-> sub, id |-> <<"o", n>>, x |-> x]
VarDecl(name, ty) == Decl(name, "var", NoType, FALSE, FALSE, ty, 0, ty, NoType)
Leaf(ty, n) == Orig("DeclRefExpr", ty, <<>>, n, VarDecl("v", ty))
TupleOf(fields, n) ==
  Orig("TupleExpr", Tuple(fields),
       [i \in 1..Len(fields) |-> Leaf(fields[i].ty, 10 * n + i)], n, <<>>)
Paren(e, n) == Orig("ParenExpr", e.ty, <<e>>, n, <<>>)

TupleExprFields ==
  {<<Unnamed(IntTy), Unnamed(StrTy)>>, <<Named("a", IntTy), Named("b", StrTy)>>,
   <<Unnamed(IntTy), Unnamed(IntTy), Unnamed(IntTy)>>, <<Unnamed(ClassD), Unnamed(IntTy)>>,
   <<Unnamed(StrTy), Unnamed(IntTy), Unnamed(IntTy)>>, <<Unnamed(IntTy)>>}

FromExprs ==
  {Leaf(t, 1) : t \in ScalarTypes \cup TupleTypes}
  \cup {TupleOf(f, 1) : f \in TupleExprFields}
  \cup {Paren(TupleOf(f, 2), 1) : f \in TupleExprFields}
  \cup {Orig("SuperRefExpr", LValue(ClassD, "default"), <<>>, 1, <<>>)}

ToTypes == ScalarTypes \cup TupleTypes

RestrictionKinds ==
  {"TupleToTuple", "ScalarToTuple", "Superclass", "Existential", "ValueToOptional",
   "User"}

\* The declarations a user conversion can select.
selfInput(t) == IF hasReferenceSemantics(t) THEN t ELSE LValue(t, "member")
ConversionDecl(fromTy, resTy) ==
  Decl("__conversion", "func", fromTy, FALSE, TRUE,
       Function(selfInput(fromTy), Function(EmptyTuple, resTy, "plain"), "plain"),
       2, NoType, NoType)
ConstructorDecl(fromTy, toTy) ==
  Decl("init", "ctor", toTy, FALSE, FALSE,
       Function(MetaType(toTy), Function(fromTy, toTy, "plain"), "plain"),
       2, NoType, NoType)
Choice(kind, decl, opened) == [kind |-> kind, decl |-> decl, opened |-> opened]

\* The function whose default arguments a call fills in.
DefaultsOwner(params) ==
  Decl("f", "func", NoType, FALSE, FALSE, Function(params, EmptyTuple, "plain"), 1,
       NoType, NoType)

---------------------------------------------------------------------------
(* Specification SpecCoerce: one call of coerceToType on an expression of  *)
(* the program, under a solution of the solver.                            *)

EmptyMap == [z \in {} |-> z]

Env(asserts, injectionFn, checkSubstitutions) ==
  [asserts |-> asserts, injectionFn |-> injectionFn,
   checkSubstitutions |-> checkSubstitutions, conformances |-> Conformances]

\* What the solver may have recorded for the conversion of expr to toType.
RestrictionOptions(expr, toType) ==
  {EmptyMap}
  \cup {<<getCanonicalType(expr.ty), getCanonicalType(toType)>> :> kind :
          kind \in RestrictionKinds}

OverloadOptions(expr, toType, locator) ==
  LET convLocator == withPathElement(locator, <<"ConversionMember">>)
      ctorLocator == withPathElement(locator, <<"ConstructorMember">>)
      fromTy == getRValueType(expr.ty)
  IN {EmptyMap,
      convLocator :> Choice("Decl", ConversionDecl(fromTy, toType),
                            Function(EmptyTuple, toType, "plain")),
      convLocator :> Choice("Decl", ConversionDecl(fromTy, StrTy),
                            Function(EmptyTuple, StrTy, "plain")),
      ctorLocator :> Choice("IdentityFunction", NoDecl, NoType),
      ctorLocator :> Choice("Decl", ConstructorDecl(fromTy, toType),
                            Function(fromTy, toType, "plain"))}

CoerceLocators(expr) ==
  {Locator(expr.id, <<>>), Locator(expr.id, <<<<"ApplyArgument">>>>)}

InitCoerce ==
  /\ pc = "coerce"
  /\ \E expr \in FromExprs, toType \in ToTypes, build \in BOOLEAN :
       \E locator \in CoerceLocators(expr) :
         \E restr \in RestrictionOptions(expr, toType),
            ovl \in OverloadOptions(expr, toType, locator) :
           input = [expr |-> expr, toType |-> toType, locator |-> locator,
                    S |-> [bind |-> EmptyMap, restr |-> restr, ovl |-> ovl,
                           owners |-> locator :> DefaultsOwner(toType),
                           env |-> Env(build, build, TRUE)]]
  /\ result = Null
  /\ ValueTypeMemberApplications = EmptyMap
  /\ LeftSideOfAssignment = 0
  /\ dc = "top"
  /\ diags = <<>>
  /\ log = <<>>

\* The call coerceToType(expr, toType, locator).
CoerceToType ==
  /\ pc = "coerce"
  /\ result' = recurse("coerceToType", <<input.S, input.expr, input.toType, input.locator,
                            MaxCoerceDepth>>)
  /\ pc' = "coerced"
  /\ UNCHANGED <<input, ValueTypeMemberApplications, LeftSideOfAssignment, dc,
                 diags, log>>

\* The call coerceObjectArgumentToType(expr, toType, locator).
CoerceObjectArgumentToType ==
  /\ pc = "coerce"
  /\ result' = recurse("coerceObjectArgumentToType",
                       <<input.S, input.expr, input.toType, input.locator,
                         MaxCoerceDepth>>)
  /\ pc' = "coercedObject"
  /\ UNCHANGED <<input, ValueTypeMemberApplications, LeftSideOfAssignment, dc,
                 diags, log>>

NextCoerce == CoerceToType \/ CoerceObjectArgumentToType

SpecCoerce == InitCoerce /\ [][NextCoerce]_vars

\* C1: a non-null result of coerceToType has a recorded type canonically
\* equal to the type asked for, on every dispatch path.
C1_ResultHasTargetType ==
  (pc = "coerced" /\ IsExpr(result)) =>
     getCanonicalType(result.ty) = getCanonicalType(input.toType)

C1_Witness ==
  /\ pc = "coerced"
  /\ result.k = "InjectIntoOptionalExpr"
  /\ result.sub[1].k = "DerivedToBaseExpr"
  /\ getCanonicalType(result.ty) = Optional(ClassB)

\* C3: coerceToType on an expression whose type already equals the target
\* returns that very node, unmodified, whatever restrictions and overload
\* choices the solution holds.
C3_EqualTypeReturnsSameNode ==
  (pc = "coerced"
   /\ getCanonicalType(input.expr.ty) = getCanonicalType(input.toType)) =>
     result = input.expr

C3_Witness ==
  /\ pc = "coerced"
  /\ getCanonicalType(input.expr.ty) = getCanonicalType(input.toType)
  /\ input.expr.ty # input.toType
  /\ DOMAIN input.S.restr # {}
  /\ DOMAIN input.S.ovl # {}
  /\ result = input.expr

---------------------------------------------------------------------------
(* The visitors of ExprRewriter.  A visitor that touches the tracker takes *)
(* and returns the rewriter state st, a record                             *)
(*   lsa    ExprWalker::LeftSideOfAssignment                               *)
(*   vtma   ExprRewriter::ValueTypeMemberApplications (node id -> count)   *)
(*   diags  the diagnostics emitted so far                                 *)
(*   dc     ExprRewriter::dc                                               *)
(*   log    the tracker and context events so far                          *)

RewriterState(lsa, vtma, dg, ctx, lg) ==
  [lsa |-> lsa, vtma |-> vtma, diags |-> dg, dc |-> ctx, log |-> lg]

\* tc.diagnose(loc, id): the location is the identity of the node.
diagnose(st, id, what) == [st EXCEPT !.diags = Append(@, <<what, id>>)]

\* What a visitor hands back: the result and the rewriter state.
Visited(res, st) == [res |-> res, st |-> st]

\* ExprRewriter::simplifyExprType
simplifyExprType(S, expr) == setType(expr, simplifyType(S, expr.ty))

\* ExprRewriter::getTypeOfDeclReference, for a value declaration.
getTypeOfDeclReference(decl) == decl.ty

\* ExprRewriter::visitDeclRefExpr, for a declaration that is not a member
\* of a protocol.
visitDeclRefExpr(S, expr) ==
  LET fromType == expr.ty
      typed == setType(expr, getTypeOfDeclReference(expr.x))
  IN
  IF ~hasTypeVariable(fromType) THEN typed
  ELSE IF is(typed.ty, "poly")
    THEN specialize(S, typed, desugar(typed.ty), fromType)
  ELSE simplifyExprType(S, simplifyExprType(S, typed))

\* ExprRewriter::visitUnresolvedDeclRefExpr
visitUnresolvedDeclRefExpr(expr) == Null

\* ExprRewriter::visitParenExpr
visitParenExpr(expr) == setType(expr, expr.sub[1].ty)

\* ExprRewriter::visitTupleExpr
visitTupleExpr(S, expr) == simplifyExprType(S, expr)

\* The visitors that return the node as it is.
visitErrorExpr(expr) == expr
visitModuleExpr(expr) == expr
visitOpaqueValueExpr(expr) == expr
visitRebindSelfInConstructorExpr(expr) == expr

\* ExprRewriter::visitDiscardAssignmentExpr
visitDiscardAssignmentExpr(S, expr) == simplifyExprType(S, expr)

\* DenseMap::insert: an existing key keeps its value.
trackerInsert(vtma, key, count) ==
  IF key \in DOMAIN vtma THEN vtma ELSE (key :> count) @@ vtma

\* An erase that leaves the map as it is.
trackerKeep(vtma, key) == vtma

\* DenseMap::erase
trackerErase(vtma, key) == [q \in DOMAIN vtma \ {key} |-> vtma[q]]

\* TypeChecker::coerceToMaterializable
coerceToMaterializable(e) == e

\* new (context) TupleElementExpr(base, index, type)
TupleElementExpr(base, index, ty) == Node("TupleElementExpr", ty, <<base>>, index)

\* A visitUnresolvedDotExpr that tracks every member reference that is a
\* call, whatever the type of its self argument.
isValueTypeMemberWithoutLValueTest(member) ==
  /\ member.k \in ApplyKinds
  /\ member.sub[1].k = "DeclRefExpr"
  /\ member.sub[1].x.kind = "func"
  /\ member.sub[1].x.instance

\* The test of visitUnresolvedDotExpr for "an application of a value type
\* method": an apply whose argument is an lvalue and whose callee refers to
\* a function declaration that is an instance member.
isValueTypeMember(member) ==
  /\ member.k \in ApplyKinds
  /\ is(member.sub[2].ty, "lv")
  /\ member.sub[1].k = "DeclRefExpr"
  /\ member.sub[1].x.kind = "func"
  /\ member.sub[1].x.instance

\* ExprRewriter::visitUnresolvedDotExpr
\* buildDynamicMemberRef: the substitutions of a polymorphic method are
\* computed and kept in the member; the base is taken as an rvalue.
buildDynamicMemberRef(S, base, member, openedType) ==
  LET resultTy == desugar(member.ty)[IF Kind(desugar(member.ty)) = "poly"
                                     THEN 4 ELSE 3]
      specializes == member.kind = "func" /\ is(resultTy, "poly")
      r == computeSubstitutions(S, desugar(resultTy), openedType)
      rbase == coerceToRValue(base)
  IN
  IF member.kind = "func" /\ Kind(desugar(member.ty)) \notin {"fn", "poly"} THEN Crash
  ELSE IF specializes /\ r.unbound THEN Crash
  ELSE IF ~IsExpr(rbase) THEN rbase
  ELSE MemberRefExpr("DynamicMemberRefExpr", rbase, member,
                     simplifyType(S, openedType))

visitUnresolvedDotExpr(S, expr, st) ==
  LET selected == getOverloadChoice(
                    S, Locator(expr.id, <<<<"MemberRefBase">>>>))
      member == recurse("buildMemberRef", <<S, expr.sub[1], selected.decl, selected.opened,
                               Locator(expr.id, <<>>), MaxCoerceDepth>>)
      count == selected.decl.natArgs - 1
      base == IF is(expr.sub[1].ty, "lv") THEN expr.sub[1]
              ELSE coerceToMaterializable(expr.sub[1])
  IN
  CASE selected.kind = "Decl" ->
         IF Stopped(member) THEN Visited(member, st)
         ELSE IF IsNull(member) THEN Visited(Crash, st)
         ELSE IF isValueTypeMember(member) THEN
           Visited(member,
                   [st EXCEPT
                      !.vtma = trackerInsert(@, member.id, count),
                      !.log = Append(@, <<"insert", member.id, count>>)])
         ELSE Visited(member, st)
    [] selected.kind = "DeclViaDynamic" ->
         Visited(buildDynamicMemberRef(S, expr.sub[1], selected.decl,
                                       selected.opened), st)
    [] selected.kind = "TupleIndex" ->
         IF IsNull(base) THEN Visited(Null, st)
         ELSE Visited(TupleElementExpr(base, selected.index,
                                       simplifyType(S, expr.ty)), st)
    [] selected.kind = "BaseType" -> Visited(expr.sub[1], st)
    [] OTHER -> Visited(Crash, st)

\* ExprRewriter::visitApplyExpr
visitApplyExpr(S, expr, st) ==
  LET result0 == recurse("finishApply", <<S, expr, expr.ty, Locator(expr.id, <<>>),
                             MaxCoerceDepth>>)
      fn == getSemanticsProvidingExpr(coerceToRValue(expr.sub[1]))
      found == fn.id \in DOMAIN st.vtma
      count == st.vtma[fn.id]
      erased == trackerErase(st.vtma, fn.id)
      entered == [st EXCEPT !.log = Append(@, <<"apply", expr.id>>)]
  IN
  IF Stopped(result0) THEN Visited(result0, entered)
  ELSE IF ~found THEN Visited(result0, entered)
  ELSE IF S.env.asserts /\ count <= 0 THEN Visited(Crash, entered)
  ELSE IF count > 1 THEN
    Visited(result0,
            [entered EXCEPT
               !.vtma = trackerInsert(erased, result0.id, count - 1),
               !.log = @ \o <<<<"erase", fn.id, count>>,
                              <<"insert", result0.id, count - 1>>>>])
  ELSE Visited(result0,
               [entered EXCEPT !.vtma = erased,
                               !.log = Append(@, <<"erase", fn.id, count>>)])

\* ExprRewriter::visitIfExpr: both branches are coerced to the simplified
\* type of the node and stored, whatever the coercions return.
visitIfExpr(S, expr) ==
  LET resultTy == simplifyType(S, expr.ty)
      locator == Locator(expr.id, <<>>)
      thenExpr == recurse("coerceToType", <<S, expr.sub[2], resultTy,
                               withPathElement(locator, <<"IfThen">>),
                               MaxCoerceDepth>>)
      elseExpr == recurse("coerceToType", <<S, expr.sub[3], resultTy,
                               withPathElement(locator, <<"IfElse">>),
                               MaxCoerceDepth>>)
  IN
  IF Stopped(thenExpr) THEN thenExpr
  ELSE IF Stopped(elseExpr) THEN elseExpr
  ELSE [expr EXCEPT !.ty = resultTy, !.sub[2] = thenExpr, !.sub[3] = elseExpr]

\* ConstraintSystem::computeAssignDestType: the object type of a settable
\* lvalue, field by field for a tuple of destinations; no type otherwise.
RECURSIVE computeAssignDestType(_)
computeAssignDestType(dest) ==
  LET inner == getSemanticsProvidingExpr(dest)
      fieldTys == [i \in 1..Len(inner.sub) |-> computeAssignDestType(inner.sub[i])]
  IN
  IF inner.k = "TupleExpr" THEN
    (IF \E i \in 1..Len(fieldTys) : fieldTys[i] = NoType THEN NoType
     ELSE Tuple([i \in 1..Len(fieldTys) |-> TupleTypeElt(fieldTys[i], "", "None", FALSE)]))
  ELSE IF is(inner.ty, "lv") THEN getRValueType(inner.ty)
  ELSE NoType

\* ExprRewriter::visitAssignExpr
visitAssignExpr(S, expr) ==
  LET destTy == computeAssignDestType(expr.sub[1])
      src == recurse("coerceToType", <<S, expr.sub[2], destTy,
                          Locator(expr.sub[2].id, <<<<"AssignSource">>>>),
                          MaxCoerceDepth>>)
  IN
  IF destTy = NoType THEN Null
  ELSE IF ~IsExpr(src) THEN src
  ELSE [expr EXCEPT !.sub[2] = src]

\* ExprRewriter::visitIsaExpr.  The classification of the cast by
\* typeCheckCheckedCast is x.classified; the subexpression was type-checked
\* on its own.
visitIsaExpr(S, expr, st) ==
  LET sub == coerceToRValue(expr.sub[1])
      checked == [expr EXCEPT !.sub[1] = sub]
  IN
  CASE expr.x.classified = "Unresolved" -> Visited(Null, st)
    [] expr.x.classified = "InvalidCoercible" ->
         Visited(checked, diagnose(st, expr.id, "isa_is_always_true"))
    [] OTHER ->
         Visited([checked EXCEPT !.x.castKind = expr.x.classified], st)

\* TypeChecker::getArraySliceType: no type when the library lacks Slice.
getArraySliceType(S, elementType) ==
  IF S.env.injectionFn THEN ArraySlice(elementType) ELSE NoType

\* ExprRewriter::visitNewArrayExpr for a node without explicit construction
\* closure: [res, node], node being the expression as the visitor left it.
visitNewArrayExpr(S, expr) ==
  LET resultType == simplifyType(S, expr.ty)
      elementType == desugar(resultType)[2]
      withElement == [expr EXCEPT !.x.elementType = elementType]
      sliceType == IF Kind(resultType) = "slice" THEN resultType
                   ELSE getArraySliceType(S, elementType)
      typed == setType(withElement, sliceType)
      injectionFn == buildArrayInjectionFnRef(S, sliceType)
      choice == getOverloadChoice(
                  S, Locator(expr.id, <<<<"NewArrayElement">>>>))
      ctor == buildCheckedRefExpr(choice.decl, expr.id)
      metaty == [k |-> "MetatypeExpr", ty |-> MetaType(elementType),
                 sub |-> <<>>, id |-> <<"w", "MetatypeExpr", expr.id>>,
                 x |-> <<>>]
      applyExpr == setType(ConstructorRefCallExpr(ctor, metaty), elementType)
  IN
  IF ~is(resultType, "slice") THEN [res |-> Crash, node |-> expr]
  ELSE IF sliceType = NoType THEN [res |-> Null, node |-> withElement]
  ELSE IF IsNull(injectionFn) THEN [res |-> Null, node |-> typed]
  ELSE LET done == [typed EXCEPT !.x.injectionFn = injectionFn,
                                 !.x.construction = applyExpr]
       IN [res |-> done, node |-> done]

\* ExprRewriter::finalize: one diagnostic for each entry left in the
\* tracker, at the location of its key; reading the location of a null key
\* stops the process.  [crashed, diags]
RECURSIVE diagnoseUnapplied(_, _)
diagnoseUnapplied(keys, dg) ==
  IF keys = {} THEN dg
  ELSE LET key == CHOOSE q \in keys : TRUE IN
       diagnoseUnapplied(keys \ {key},
                         Append(dg, <<"partial_application_of_value_type_method",
                                      key>>))

finalize(st) ==
  IF NullId \in DOMAIN st.vtma
  THEN [crashed |-> TRUE, st |-> [st EXCEPT !.log = Append(@, <<"finalize">>)]]
  ELSE [crashed |-> FALSE,
        st |-> [st EXCEPT !.diags = diagnoseUnapplied(DOMAIN st.vtma, @),
                          !.log = Append(@, <<"finalize">>)]]

\* findNamedWitness: the declaration that satisfies the requirement `name`
\* of the protocol for the type; NoDecl stands for the null result and
\* StopDecl for a run that stopped in an assertion or a null dereference.
\* S.env.protocols maps a protocol to its members, S.env.witnesses maps
\* <<canonical type, protocol, name>> to the witness.
StopDecl == Decl("stop", "stop", NoType, FALSE, FALSE, NoType, 0, NoType, NoType)

\* The loop over proto->getMembers(): the position of the first function
\* member with that name, 0 when there is none.  A member is a record
\* [decl, invalid].
RECURSIVE findRequirement(_, _, _)
findRequirement(members, name, i) ==
  IF i > Len(members) THEN 0
  ELSE IF members[i].decl.kind = "func" /\ members[i].decl.name # ""
          /\ members[i].decl.name = name THEN i
  ELSE findRequirement(members, name, i + 1)

findNamedWitness(S, type, proto, name) ==
  LET members == S.env.protocols[proto]
      requirement == findRequirement(members, name, 1)
      conforms == conformsToProtocol(S, type, proto)
      key == <<getCanonicalType(type), proto, name>>
  IN
  IF requirement = 0 THEN NoDecl
  ELSE IF members[requirement].invalid THEN NoDecl
  ELSE IF ~conforms /\ S.env.asserts THEN StopDecl
  ELSE IF is(type, "arch") THEN members[requirement].decl
  ELSE IF ~conforms \/ key \notin DOMAIN S.env.witnesses THEN StopDecl
  ELSE S.env.witnesses[key]

\* new (tc.Context) MetatypeExpr(nullptr, loc, MetaTypeType::get(type))
MetatypeExpr(type, origin) ==
  [k |-> "MetatypeExpr", ty |-> MetaType(type), sub |-> <<>>,
   id |-> <<"w", "MetatypeExpr", origin>>, x |-> <<>>]

\* The loop of visitInterpolatedStringLiteralExpr over the segments: the
\* coerced segments, or the null or stop that ended the loop.
coerceSegments(S, expr, type, i, acc) ==
  IF i > Len(expr.sub) THEN [res |-> expr, segments |-> acc]
  ELSE LET segment ==
             recurse("coerceToType", <<S, expr.sub[i], type,
                          withPathElement(Locator(expr.id, <<>>),
                                          <<"InterpolationArgument", i - 1>>),
                          MaxCoerceDepth>>)
       IN IF ~IsExpr(segment) THEN [res |-> segment, segments |-> acc]
          ELSE recurse("coerceSegments", <<S, expr, type, i + 1, Append(acc, segment)>>)

\* ExprRewriter::visitInterpolatedStringLiteralExpr
visitInterpolatedStringLiteralExpr(S, expr) ==
  LET openedType == expr.ty
      type == simplifyType(S, openedType)
      member == findNamedWitness(S, type, "StringInterpolationConvertible",
                                 "convertFromStringInterpolation")
      typeRef == MetatypeExpr(type, expr.id)
      memberRef == recurse("buildMemberRef", <<S, typeRef, member, member.ty,
                                  Locator(expr.id, <<>>), MaxCoerceDepth>>)
      coerced == recurse("coerceSegments", <<S, expr, type, 1, <<>>>>)
      segments == coerced.segments
      argument ==
        IF Len(segments) = 1 THEN segments[1]
        ELSE [k |-> "TupleExpr",
              ty |-> Tuple([i \in 1..Len(segments) |->
                              TupleTypeElt(type, "", "None", FALSE)]),
              sub |-> segments, id |-> <<"w", "TupleExpr", expr.id>>,
              x |-> <<>>]
      apply == CallExpr(memberRef, argument)
      semantic == recurse("finishApply", <<S, apply, openedType, Locator(expr.id, <<>>),
                              MaxCoerceDepth>>)
  IN
  IF member = StopDecl THEN Crash
  ELSE IF Stopped(memberRef) THEN memberRef
  ELSE IF ~IsExpr(coerced.res) THEN coerced.res
  ELSE IF Stopped(semantic) THEN semantic
  ELSE [expr EXCEPT !.ty = type, !.x.semanticExpr = semantic]

---------------------------------------------------------------------------
(* The walker of applySolution.  Expr::walk is the traversal of ASTWalker: *)
(* the pre-hook, then the children in order (a child that comes back null  *)
(* ends the walk of its parent with null), then the post-hook.  The nodes  *)
(* are rewritten in place, so a walk that fails leaves its node as far as  *)
(* it got: Walked.node is the expression behind the original pointer.      *)

Walked(res, node, st) == [res |-> res, node |-> node, st |-> st]

\* The run records where a hook or a visitor came back with null.
noteNull(res, id, st) ==
  IF IsNull(res) THEN [st EXCEPT !.log = Append(@, <<"null", id>>)] ELSE st

\* ExprVisitor::visit: the dispatch of the post-hook on the node kind.
visit(S, expr, st) ==
  CASE expr.k = "DeclRefExpr" -> Visited(visitDeclRefExpr(S, expr), st)
    [] expr.k = "UnresolvedDeclRefExpr" ->
         Visited(visitUnresolvedDeclRefExpr(expr), st)
    [] expr.k = "ParenExpr" -> Visited(visitParenExpr(expr), st)
    [] expr.k = "TupleExpr" -> Visited(visitTupleExpr(S, expr), st)
    [] expr.k = "ErrorExpr" -> Visited(visitErrorExpr(expr), st)
    [] expr.k = "ModuleExpr" -> Visited(visitModuleExpr(expr), st)
    [] expr.k = "OpaqueValueExpr" -> Visited(visitOpaqueValueExpr(expr), st)
    [] expr.k = "RebindSelfInConstructorExpr" ->
         Visited(visitRebindSelfInConstructorExpr(expr), st)
    [] expr.k = "DiscardAssignmentExpr" ->
         Visited(visitDiscardAssignmentExpr(S, expr), st)
    [] expr.k = "UnresolvedDotExpr" -> recurse("visitUnresolvedDotExpr", <<S, expr, st>>)
    [] expr.k \in ApplyKinds -> recurse("visitApplyExpr", <<S, expr, st>>)
    [] expr.k = "IsaExpr" -> visitIsaExpr(S, expr, st)
    [] expr.k = "InterpolatedStringLiteralExpr" ->
         Visited(recurse("visitInterpolatedStringLiteralExpr", <<S, expr>>), st)
    [] OTHER -> Visited(Crash, st)


\* The children of expr from the i-th on.
walkChildren(S, expr, i, st) ==
  IF i > Len(expr.sub) THEN Walked(expr, expr, st)
  ELSE LET w == recurse("walk", <<S, expr.sub[i], st>>) IN
       IF ~IsExpr(w.res)
       THEN Walked(w.res, [expr EXCEPT !.sub[i] = w.node], w.st)
       ELSE recurse("walkChildren", <<S, [expr EXCEPT !.sub[i] = w.res], i + 1, w.st>>)

\* The pre-hook for an IfExpr: sub = <<condition, then, else>>.
walkIfExpr(S, expr, st) ==
  LET t == recurse("walk", <<S, expr.sub[2], st>>)
      e1 == [expr EXCEPT !.sub[2] = IF IsExpr(t.res) THEN t.res ELSE t.node]
      el == recurse("walk", <<S, expr.sub[3], t.st>>)
      e2 == [e1 EXCEPT !.sub[3] = IF IsExpr(el.res) THEN el.res ELSE el.node]
      v == recurse("visitIfExpr", <<S, e2>>)
  IN
  IF Stopped(t.res) THEN Walked(t.res, e1, t.st)
  ELSE IF Stopped(el.res) THEN Walked(el.res, e2, el.st)
  ELSE IF Stopped(v) THEN Walked(v, e2, el.st)
  ELSE Walked(v, v, el.st)

\* A rewriter that stays in the context it is in.
keepContext(after, saved) == after

\* llvm::SaveAndRestore<DeclContext *> savedDC(Rewriter.dc, closure): the
\* constructor enters the closure, the destructor puts the saved context back.
enterContext(st, closure) ==
  [st EXCEPT !.dc = closure.id, !.log = Append(@, <<"dc", closure.id>>)]
restoreContext(after, saved) ==
  [after EXCEPT !.dc = saved.dc, !.log = Append(@, <<"dc", saved.dc>>)]

\* The pre-hook for a ClosureExpr with a single-expression body:
\* sub = <<body>>, x.paramsOk is the answer of the pattern coercion.
walkClosureExpr(S, expr, st) ==
  LET closure == simplifyExprType(S, expr)
      fnType == desugar(closure.ty)
      inside == enterContext(st, expr)
      b == recurse("walk", <<S, closure.sub[1], inside>>)
      outside == restoreContext(b.st, st)
      body == recurse("coerceToType", <<S, b.res, fnType[3],
                           Locator(expr.id, <<<<"ClosureResult">>>>),
                           MaxCoerceDepth>>)
  IN
  IF ~is(closure.ty, "fn") THEN Walked(Crash, closure, st)
  ELSE IF ~expr.x.paramsOk THEN Walked(Null, closure, noteNull(Null, expr.id, st))
  ELSE IF ~IsExpr(b.res)
    THEN Walked(b.res, [closure EXCEPT !.sub[1] = b.node], outside)
  ELSE IF ~IsExpr(body)
    THEN Walked(body, [closure EXCEPT !.sub[1] = b.res],
                noteNull(body, expr.id, outside))
  ELSE LET done == [closure EXCEPT !.sub[1] = body] IN Walked(done, done, outside)

\* The pre-hook for an AssignExpr: sub = <<dest, src>>.
\* The walker reaches an assignment and is done with it: the log keeps the
\* value of LeftSideOfAssignment at both points.
reachAssign(st, assign) ==
  [st EXCEPT !.log = Append(@, <<"assign", assign.id, st.lsa>>)]
leaveAssign(st, assign) ==
  [st EXCEPT !.log = Append(@, <<"assigned", assign.id, st.lsa>>)]

walkAssignExpr(S, expr, st) ==
  LET d == recurse("walk", <<S, expr.sub[1],
                             [reachAssign(st, expr) EXCEPT !.lsa = @ + 1]>>)
      e1 == [expr EXCEPT !.sub[1] = d.res]
      s == recurse("walk", <<S, expr.sub[2], [d.st EXCEPT !.lsa = @ - 1]>>)
      e2 == [e1 EXCEPT !.sub[2] = s.res]
      v == recurse("visitAssignExpr", <<S, e2>>)
  IN
  IF ~IsExpr(d.res)
    THEN Walked(d.res, [expr EXCEPT !.sub[1] = d.node], leaveAssign(d.st, expr))
  ELSE IF ~IsExpr(s.res)
    THEN Walked(s.res, [e1 EXCEPT !.sub[2] = s.node], leaveAssign(s.st, expr))
  ELSE IF ~IsExpr(v)
    THEN Walked(v, e2, leaveAssign(noteNull(v, expr.id, s.st), expr))
  ELSE Walked(v, v, leaveAssign(s.st, expr))

\* Expr::walk(walker): walkToExprPre, the children, walkToExprPost.
walk(S, expr, st) ==
  CASE expr.k = "NewArrayExpr" ->
         LET v == visitNewArrayExpr(S, expr) IN
         IF Stopped(v.res) THEN Walked(v.res, v.node, st)
         ELSE Walked(v.node, v.node, noteNull(v.res, expr.id, st))
    [] expr.k = "IfExpr" -> recurse("walkIfExpr", <<S, expr, st>>)
    [] expr.k = "IsaExpr" ->
         LET v == recurse("visit", <<S, expr, st>>) IN
         Walked(v.res, expr, noteNull(v.res, expr.id, v.st))
    [] expr.k = "ClosureExpr" -> recurse("walkClosureExpr", <<S, expr, st>>)
    [] expr.k = "AssignExpr" -> recurse("walkAssignExpr", <<S, expr, st>>)
    [] OTHER ->
         LET reached == IF expr.k = "DiscardAssignmentExpr"
                        THEN [st EXCEPT !.log = Append(@, <<"discard", expr.id>>)]
                        ELSE st
             pre == IF expr.k = "DiscardAssignmentExpr" /\ st.lsa = 0
                    THEN diagnose(reached, expr.id,
                                  "discard_expr_outside_of_assignment")
                    ELSE reached
             c == recurse("walkChildren", <<S, expr, 1, pre>>)
             v == recurse("visit", <<S, c.res, c.st>>)
         IN IF ~IsExpr(c.res) THEN c
            ELSE Walked(v.res, IF IsExpr(v.res) THEN v.res ELSE c.res,
                        noteNull(v.res, expr.id, v.st))

---------------------------------------------------------------------------
(* The expression trees handed to applySolution.  A tree is written with   *)
(* the constructors below and then numbered: the root is node 1, the i-th  *)
(* child of node n is node 10n+i.                                          *)

BoolTy == Nominal("Bool")
Shape(k, ty, sub, x) == [k |-> k, ty |-> ty, sub |-> sub, id |-> NullId, x |-> x]

RECURSIVE Number(_, _)
Number(e, n) ==
  [e EXCEPT !.id = <<"o", n>>,
            !.sub = [i \in 1..Len(e.sub) |-> Number(e.sub[i], 10 * n + i)]]

RECURSIVE Nodes(_)
Nodes(e) == {e} \cup UNION {Nodes(e.sub[i]) : i \in 1..Len(e.sub)}

\* The type variables of the constraint system and their bindings.
TV1 == TypeVar(1, "")
TV2 == TypeVar(2, "")
TVT == TypeVar(3, "T")
Bindings == (1 :> IntTy) @@ (2 :> StrTy) @@ (3 :> IntTy)

\* Leaves.
Ref(ty, declTy) == Shape("DeclRefExpr", ty, <<>>, VarDecl("v", declTy))
xInt == Ref(IntTy, IntTy)
xStr == Ref(StrTy, StrTy)
xLInt == Ref(LValue(IntTy, "default"), LValue(IntTy, "default"))
xB == Ref(ClassB, ClassB)
closureParam == Ref(TV1, TV1)
genericFn ==
  Ref(Function(TVT, TVT, "plain"), PolymorphicFunction(<<"T">>, ArchT, ArchT))
unresolved == Shape("UnresolvedDeclRefExpr", TV1, <<>>, <<>>)
opaque == Shape("OpaqueValueExpr", IntTy, <<>>, <<>>)
errorExpr == Shape("ErrorExpr", <<"error">>, <<>>, <<>>)
moduleExpr == Shape("ModuleExpr", <<"module", "M">>, <<>>, <<>>)
discard == Shape("DiscardAssignmentExpr", LValue(TV1, "default"), <<>>, <<>>)

\* Compound expressions.
paren(e) == Shape("ParenExpr", e.ty, <<e>>, <<>>)
tuple(a, b) == Shape("TupleExpr", Tuple(<<Unnamed(a.ty), Unnamed(b.ty)>>), <<a, b>>, <<>>)
rebindSelf(e) == Shape("RebindSelfInConstructorExpr", EmptyTuple, <<e>>, <<>>)
isa(e, classified) ==
  Shape("IsaExpr", BoolTy, <<e>>, [classified |-> classified, castKind |-> "Unresolved"])
assign(d, s) == Shape("AssignExpr", EmptyTuple, <<d, s>>, <<>>)
ifExpr(t, e, ty) == Shape("IfExpr", ty, <<Ref(BoolTy, BoolTy), t, e>>, <<>>)
closure(body, ty, paramsOk) == Shape("ClosureExpr", ty, <<body>>, [paramsOk |-> paramsOk])
WalkChoice(kind, decl, opened, index) ==
  [kind |-> kind, decl |-> decl, opened |-> opened, index |-> index]
dot(base, decl, opened) ==
  Shape("UnresolvedDotExpr", opened, <<base>>, WalkChoice("Decl", decl, opened, 0))
call(fn, arg, ty) == Shape("CallExpr", ty, <<fn, arg>>, <<>>)
newArray(ty) ==
  Shape("NewArrayExpr", ty, <<>>,
        [elementType |-> NoType, injectionFn |-> Null, construction |-> Null,
         choice |-> WalkChoice("Decl", ConstructorDecl(EmptyTuple, IntTy),
                               Function(EmptyTuple, IntTy, "plain"), 0)])
interpolated(segments, ty) ==
  Shape("InterpolatedStringLiteralExpr", ty, segments, [semanticExpr |-> Null])

\* The methods of the program: m1(Int) -> Str and the curried m2(Int)(Int),
\* m3(Int)(Int)(Int) and mv(Int, Int...)(Int) of the struct Int, and cm(Int)
\* of the class B.
Method(name, container, params, natArgs) ==
  Decl(name, "func", container, FALSE, TRUE,
       Function(selfInput(container), params, "plain"), natArgs, NoType, NoType)
IntToStr == Function(IntTy, StrTy, "plain")
Curried == Function(IntTy, IntToStr, "plain")
VariadicInts ==
  Tuple(<<Unnamed(IntTy), TupleTypeElt(ArraySlice(IntTy), "rest", "None", TRUE)>>)
CurriedVariadic == Function(VariadicInts, IntToStr, "plain")
m1 == Method("m1", IntTy, IntToStr, 2)
m2 == Method("m2", IntTy, Curried, 3)
m3 == Method("m3", IntTy, Function(IntTy, Curried, "plain"), 4)
mv == Method("mv", IntTy, CurriedVariadic, 3)
cm == Method("cm", ClassB, IntToStr, 2)

\* The static witness String.convertFromStringInterpolation(Str...).
InterpolationWitness ==
  Decl("convertFromStringInterpolation", "func", StrTy, FALSE, FALSE,
       Function(MetaType(StrTy),
                Function(Tuple(<<TupleTypeElt(ArraySlice(StrTy), "", "None", TRUE)>>),
                         StrTy, "plain"), "plain"),
       2, NoType, NoType)
Protocols ==
  "StringInterpolationConvertible" :>
     <<[decl |-> InterpolationWitness, invalid |-> FALSE]>>
Witnesses ==
  <<StrTy, "StringInterpolationConvertible", "convertFromStringInterpolation">>
     :> InterpolationWitness

\* The overload choices the solver recorded for the nodes of a tree.
choiceLocator(n) ==
  Locator(n.id, IF n.k = "NewArrayExpr" THEN <<<<"NewArrayElement">>>>
                ELSE <<<<"MemberRefBase">>>>)
OverloadsOf(tree) ==
  LET ns == {n \in Nodes(tree) : n.k \in {"UnresolvedDotExpr", "NewArrayExpr"}} IN
  [l \in {choiceLocator(n) : n \in ns} |->
     LET n == CHOOSE m \in ns : choiceLocator(m) = l IN
     IF n.k = "NewArrayExpr" THEN n.x.choice ELSE n.x]

\* The trees of the program under check.
WalkLeaves ==
  {xInt, xLInt, closureParam, genericFn, unresolved, opaque, errorExpr,
   moduleExpr, discard}
Wrapped ==
  {paren(l) : l \in WalkLeaves} \cup {rebindSelf(l) : l \in {xInt, opaque}}
  \cup {tuple(l, xInt) : l \in WalkLeaves}
  \cup {isa(xB, c) : c \in {"Unresolved", "InvalidCoercible", "Downcast"}}
Dests == {xLInt, discard, unresolved, xInt, tuple(xLInt, discard), paren(discard)}
Sources == {xInt, closureParam, unresolved, discard, xStr}
Assigns == {assign(d, s) : d \in Dests, s \in Sources}
Dots ==
  {dot(xLInt, m1, IntToStr), dot(xInt, m1, IntToStr), dot(xLInt, m2, Curried),
   dot(xLInt, mv, CurriedVariadic), dot(xB, cm, IntToStr)}
Calls ==
  {call(dot(b, m1, IntToStr), a, StrTy) : b \in {xLInt, xInt}, a \in {xInt, unresolved, xStr}}
  \cup {call(paren(dot(xLInt, m1, IntToStr)), xInt, StrTy),
        call(dot(xB, cm, IntToStr), xInt, StrTy),
        call(dot(xLInt, m2, Curried), xInt, IntToStr),
        call(dot(xLInt, mv, CurriedVariadic), tuple(xInt, xInt), IntToStr),
        call(call(dot(xLInt, m2, Curried), xInt, IntToStr), xInt, StrTy),
        call(call(dot(xLInt, mv, CurriedVariadic), tuple(xInt, xInt), IntToStr),
             xInt, StrTy),
        call(call(call(dot(xLInt, m3, Function(IntTy, Curried, "plain")), xInt,
                       Curried), xInt, IntToStr), xInt, StrTy),
        call(call(dot(xInt, m3, Function(IntTy, Curried, "plain")), xInt,
                  Curried), unresolved, IntToStr),
        call(genericFn, xInt, TVT)}
ValueBranches == {xInt, closureParam, unresolved, paren(unresolved)}
UnitBranches ==
  {assign(xLInt, xInt), assign(unresolved, xInt), assign(xLInt, unresolved),
   assign(discard, xInt), assign(discard, unresolved)}
Ifs ==
  {ifExpr(t, e, TV1) : t \in ValueBranches, e \in ValueBranches}
  \cup {ifExpr(t, e, EmptyTuple) : t \in UnitBranches, e \in UnitBranches}
  \cup {ifExpr(tuple(xInt, xInt), tuple(xInt, xInt), VariadicInts),
        ifExpr(call(dot(xLInt, m1, IntToStr), unresolved, StrTy), xStr, TV2),
        ifExpr(call(dot(xLInt, mv, CurriedVariadic), tuple(xInt, xInt), IntToStr),
               dot(xLInt, m1, IntToStr), IntToStr)}
Closures ==
  {closure(b, Function(TV1, TV1, "plain"), ok) :
     b \in {closureParam, xInt, unresolved, xStr}, ok \in BOOLEAN}
  \cup {closure(closure(closureParam, Function(TV1, TV1, "plain"), TRUE),
                Function(TV1, Function(TV1, TV1, "plain"), "plain"), TRUE),
        closure(closure(unresolved, Function(TV1, TV1, "plain"), TRUE),
                Function(TV1, Function(TV1, TV1, "plain"), "plain"), TRUE),
        closure(closureParam, TV1, TRUE),
        closure(tuple(xInt, xInt), Function(TV1, VariadicInts, "plain"), TRUE),
        closure(closure(tuple(xInt, xInt), Function(TV1, VariadicInts, "plain"), TRUE),
                Function(TV1, Function(TV1, VariadicInts, "plain"), "plain"), TRUE),
        closure(closure(xStr, Function(TV1, TV1, "plain"), TRUE),
                Function(TV1, Function(TV1, TV1, "plain"), "plain"), TRUE),
        closure(closure(closure(closureParam, Function(TV1, TV1, "plain"), TRUE),
                        Function(TV1, Function(TV1, TV1, "plain"), "plain"), TRUE),
                Function(TV1, Function(TV1, Function(TV1, TV1, "plain"), "plain"),
                         "plain"), TRUE),
        closure(closure(closure(unresolved, Function(TV1, TV1, "plain"), TRUE),
                        Function(TV1, Function(TV1, TV1, "plain"), "plain"), TRUE),
                Function(TV1, Function(TV1, Function(TV1, TV1, "plain"), "plain"),
                         "plain"), TRUE)}
Arrays ==
  {newArray(ArraySlice(TV1)), newArray(NameAlias("Ints", ArraySlice(IntTy))),
   newArray(TV2)}
Interpolations ==
  {interpolated(<<xStr>>, TV2), interpolated(<<xStr, xStr>>, TV2),
   interpolated(<<xStr, unresolved>>, TV2), interpolated(<<xStr, xStr>>, StrTy)}
Pairs ==
  {tuple(a, b) :
     a \in Ifs \cup Arrays \cup Interpolations \cup Dots,
     b \in {discard, xInt}}
  \cup {tuple(a, b) : a \in {assign(unresolved, xInt), assign(xLInt, xInt)},
                      b \in {discard, xInt}}
WalkShapes ==
  WalkLeaves \cup Wrapped \cup Assigns \cup Dots \cup Calls \cup Ifs
  \cup Closures \cup Arrays \cup Interpolations \cup Pairs
WalkTrees == {Number(e, 1) : e \in WalkShapes}

---------------------------------------------------------------------------
(* Specification SpecApply: ConstraintSystem::applySolution on a tree of   *)
(* the program: the walk, then finalize.                                   *)

WalkEnv(asserts, injectionFn) ==
  [asserts |-> asserts, injectionFn |-> injectionFn, checkSubstitutions |-> TRUE,
   conformances |-> Conformances \cup {<<StrTy, "StringInterpolationConvertible">>},
   protocols |-> Protocols, witnesses |-> Witnesses]

InitApply ==
  /\ pc = "apply"
  /\ \E tree \in WalkTrees, asserts \in BOOLEAN, injectionFn \in BOOLEAN :
       input = [expr |-> tree,
                S |-> [bind |-> Bindings, restr |-> EmptyMap,
                       ovl |-> OverloadsOf(tree), owners |-> EmptyMap,
                       env |-> WalkEnv(asserts, injectionFn)]]
  /\ result = Null
  /\ ValueTypeMemberApplications = EmptyMap
  /\ LeftSideOfAssignment = 0
  /\ dc = "top"
  /\ diags = <<>>
  /\ log = <<>>

\* auto result = expr->walk(walker);
WalkTree ==
  /\ pc = "apply"
  /\ LET w == recurse("walk", <<input.S, input.expr,
                   RewriterState(LeftSideOfAssignment, ValueTypeMemberApplications,
                                 diags, dc, log)>>)
     IN /\ result' = w.res
        /\ ValueTypeMemberApplications' = w.st.vtma
        /\ LeftSideOfAssignment' = w.st.lsa
        /\ dc' = w.st.dc
        /\ diags' = w.st.diags
        /\ log' = w.st.log
        /\ pc' = IF Stopped(w.res) THEN "stopped" ELSE "walked"
  /\ UNCHANGED input

\* rewriter.finalize(); return result;
Finalize ==
  /\ pc = "walked"
  /\ LET f == finalize(RewriterState(LeftSideOfAssignment,
                                     ValueTypeMemberApplications, diags, dc, log))
     IN /\ diags' = f.st.diags
        /\ log' = f.st.log
        /\ pc' = IF f.crashed THEN "stopped" ELSE "done"
  /\ UNCHANGED <<input, result, ValueTypeMemberApplications,
                 LeftSideOfAssignment, dc>>

NextApply == WalkTree \/ Finalize

SpecApply == InitApply /\ [][NextApply]_vars

---------------------------------------------------------------------------
(* What the claims say about a rewritten tree.                             *)

\* A type variable occurs in the type of e or of one of its subexpressions.
RECURSIVE typeVariableRemains(_)
typeVariableRemains(e) ==
  IF ~IsExpr(e) THEN FALSE
  ELSE \/ hasTypeVariable(e.ty)
       \/ \E i \in 1..Len(e.sub) : typeVariableRemains(e.sub[i])

\* Some node of e has null where a child (or, for an interpolated string,
\* the semantic expression) belongs.
RECURSIVE keepsNullChild(_)
keepsNullChild(e) ==
  IF ~IsExpr(e) THEN FALSE
  ELSE \/ \E i \in 1..Len(e.sub) : IsNull(e.sub[i]) \/ keepsNullChild(e.sub[i])
       \/ (e.k = "InterpolatedStringLiteralExpr" /\ IsNull(e.x.semanticExpr))

\* The run recorded a null.
nullYielded == \E i \in 1..Len(log) : log[i][1] = "null"

\* The tracker events of the run, the applies it visited and the finalize
\* calls it made.
trackerEvents == SelectSeq(log, LAMBDA ev : ev[1] \in {"insert", "erase"})
applyCount == Cardinality({i \in 1..Len(log) : log[i][1] = "apply"})
finalizeCalls == {i \in 1..Len(log) : log[i][1] = "finalize"}
partialApplicationDiagnostics(key) ==
  {i \in 1..Len(diags) :
     diags[i] = <<"partial_application_of_value_type_method", key>>}

\* A chain f(a1)(a2)...: its number of applies, its innermost callee, and
\* the callee d applies down.
RECURSIVE chainDepth(_)
chainDepth(e) ==
  IF e.k = "CallExpr" THEN 1 + chainDepth(getSemanticsProvidingExpr(e.sub[1])) ELSE 0
RECURSIVE chainBase(_)
chainBase(e) ==
  IF e.k = "CallExpr" THEN chainBase(getSemanticsProvidingExpr(e.sub[1])) ELSE e
RECURSIVE calleeAt(_, _)
calleeAt(e, d) ==
  IF d = 0 THEN e ELSE calleeAt(getSemanticsProvidingExpr(e.sub[1]), d - 1)

\* The node id lies in the destination subtree of an assignment of e.
RECURSIVE inDestination(_, _, _)
inDestination(e, id, inside) ==
  IF e.id = id THEN inside
  ELSE \E i \in 1..Len(e.sub) :
         inDestination(e.sub[i], id, inside \/ (e.k = "AssignExpr" /\ i = 1))

\* C2: after applySolution returned a non-null expression for a tree whose
\* type variables are all bound, no type variable occurs in the type of the
\* result or of any of its subexpressions.
C2_NoTypeVariableRemains ==
  (pc = "done" /\ IsExpr(result)) => ~typeVariableRemains(result)

\* C4: a tracked method reference with count n that is the callee of n
\* nested applies is consumed step by step: each apply erases the entry of
\* its callee and, while applications remain, inserts its own result with
\* the count less one; after the n-th apply nothing is left, the tracker is
\* empty at finalization and no partial-application diagnostic is emitted.
C4_ChainFullyConsumed ==
  LET ev == trackerEvents
      n == ev[1][3]
  IN
  (/\ pc = "done"
   /\ chainBase(input.expr).k = "UnresolvedDotExpr"
   /\ Len(ev) > 0
   /\ ev[1][1] = "insert"
   /\ chainDepth(input.expr) = n
   /\ applyCount = n) =>
     /\ Len(ev) = 2 * n
     /\ \A j \in 1..n :
          /\ ev[2 * j - 1] = <<"insert", ev[2 * j][2], n - j + 1>>
          /\ ev[2 * j] = <<"erase", ev[2 * j - 1][2], n - j + 1>>
     /\ IsExpr(result) =>
          \A j \in 1..(n - 1) : ev[2 * j + 1][2] = calleeAt(result, n - j).id
     /\ DOMAIN ValueTypeMemberApplications = {}
     /\ \A i \in 1..Len(diags) :
          diags[i][1] # "partial_application_of_value_type_method"

C4_Witness ==
  /\ pc = "done"
  /\ chainBase(input.expr).k = "UnresolvedDotExpr"
  /\ chainDepth(input.expr) = 2
  /\ applyCount = 2
  /\ Len(trackerEvents) = 4
  /\ trackerEvents[1][3] = 2
  /\ IsExpr(result)
  /\ DOMAIN ValueTypeMemberApplications = {}
  /\ diags = <<>>

\* C5: applySolution calls finalize exactly once, after the walk, and
\* finalize emits exactly one partial-application diagnostic for each entry
\* still in the tracker, at the location of the entry's expression.
C5_FinalizeDiagnosesEveryEntry ==
  /\ pc = "done" =>
       Cardinality(finalizeCalls) = 1 /\ log[Len(log)][1] = "finalize"
  /\ finalizeCalls # {} =>
       \A key \in DOMAIN ValueTypeMemberApplications :
         Cardinality(partialApplicationDiagnostics(key)) = 1

\* C6: a discard expression reached by the walker is diagnosed if and only
\* if it does not lie in the destination subtree of an enclosing assignment.
C6_DiscardDiagnosedIffOutsideDestination ==
  \A i \in 1..Len(log) :
    log[i][1] = "discard" =>
      ((<<"discard_expr_outside_of_assignment", log[i][2]>>
          \in {diags[j] : j \in 1..Len(diags)})
       <=> ~inDestination(input.expr, log[i][2], FALSE))

\* C9: whenever rewriting or coercing a subexpression yielded null during
\* applySolution, applySolution returns null, and no node keeps a null
\* child.
C9_FailureAbandonsRewrite ==
  (pc \in {"walked", "done"} /\ (nullYielded \/ keepsNullChild(result))) =>
     IsNull(result)

---------------------------------------------------------------------------
(* Tuple shuffles (checked under SpecCoerce).                              *)

\* The number of destination fields of the shuffle the call produced, the
\* number of fields of its source tuple, and its recorded mapping.
shuffleProduced == pc = "coerced" /\ result.k = "TupleShuffleExpr"
destinationArity == Len(getFields(input.toType))
sourceArity == Len(getFields(result.sub[1].ty))
mappedSources(m, n) == {i \in 1..n : m[i] >= 0}

\* C7 as stated: the mapping of a tuple shuffle has exactly one entry for
\* each destination field, FirstVariadic occurs at most once and only at the
\* last destination field, and a non-negative entry indexes a source field.
C7_MappingHasOneEntryPerDestinationField ==
  shuffleProduced =>
    LET m == result.x.mapping IN
    /\ Len(m) = destinationArity
    /\ \A i \in 1..Len(m) : m[i] = FirstVariadic => i = destinationArity
    /\ \A i \in 1..Len(m) : m[i] >= 0 => m[i] < sourceArity

\* C7 as the code has it: the mapping holds one entry for each destination
\* field and after them the source index of each variadic argument;
\* FirstVariadic occurs only at the last destination field, entries
\* follow the destination fields only behind a FirstVariadic, and every
\* non-negative entry indexes a source field.  With a variadic destination
\* every source field that no destination field takes is a variadic source.
C7_MappingIsDestinationFieldsThenVariadicSources ==
  shuffleProduced =>
    LET m == result.x.mapping
        n == destinationArity
    IN
    /\ Len(m) >= n
    /\ \A i \in 1..Len(m) : m[i] = FirstVariadic => i = n
    /\ Len(m) > n => m[n] = FirstVariadic
    /\ \A i \in 1..Len(m) : m[i] >= 0 => m[i] < sourceArity
    /\ \A i \in (n + 1)..Len(m) : m[i] >= 0
    /\ (n > 0 /\ m[n] = FirstVariadic) =>
         Len(m) = n + sourceArity - Cardinality(mappedSources(m, n))

C7_Witness ==
  /\ shuffleProduced
  /\ destinationArity = 2
  /\ result.x.mapping = <<0, FirstVariadic, 1, 2>>

---------------------------------------------------------------------------
(* Literals.  The environment of a run answers the type checker's lookups: *)
(*   defaultTypes  protocol -> tc.getDefaultType (no key: none)            *)
(*   maxBuiltinIntegerType  what MaxBuiltinIntegerType names (NoType: the  *)
(*                 lookup found no type alias)                             *)
(*   witnessTypes  <<canonical type, protocol, name>> -> type witness      *)
(*   openedTypes   <<canonical base type, member name>> -> the type of the *)
(*                 member reference, for the requirements of a protocol    *)
(*   emptyFront    what reading the front of an empty solution vector      *)
(*                 does in a build without assertions                      *)

\* TypeOrName: a Type, or the Identifier of an associated type.
Identifier(n) == <<"Identifier", n>>
NoProtocol == ""

\* tc.getDefaultType: NoType is the null type.
getDefaultType(S, proto) ==
  IF proto \in DOMAIN S.env.defaultTypes THEN S.env.defaultTypes[proto] ELSE NoType

\* tc.getWitnessType: NoType is the null type.
getWitnessType(S, type, proto, name) ==
  LET key == <<getCanonicalType(type), proto, name>> IN
  IF key \in DOMAIN S.env.witnessTypes THEN S.env.witnessTypes[key] ELSE NoType

\* cs.getTypeOfMemberReference(baseTy, witness): the type of the witness
\* with its self parameter applied.
getTypeOfMemberReference(S, baseTy, witness) ==
  LET instanceTy == IF is(baseTy, "meta") THEN desugar(baseTy)[2] ELSE baseTy
      key == <<getCanonicalType(instanceTy), witness.name>>
  IN IF key \in DOMAIN S.env.openedTypes THEN S.env.openedTypes[key]
     ELSE desugar(witness.ty)[3]

\* cs.solve for the one conversion constraint of callWitness: the
\* restrictions of the solution, or failure.
solveConversion(argTy, paramTy) ==
  LET scalarIdx == getFieldForScalarInit(paramTy) IN
  IF isEqual(argTy, paramTy) THEN [failed |-> FALSE, restr |-> EmptyMap]
  ELSE IF is(paramTy, "tuple") /\ ~is(argTy, "tuple") /\ scalarIdx # -1
          /\ isEqual(getFields(paramTy)[scalarIdx + 1].ty, argTy)
    THEN [failed |-> FALSE,
          restr |-> <<getCanonicalType(argTy), getCanonicalType(paramTy)>>
                      :> "ScalarToTuple"]
  ELSE [failed |-> TRUE, restr |-> EmptyMap]

\* TypeChecker::callWitness
callWitness(S, base, protocol, name, arguments) ==
  LET type == IF is(base.ty, "meta") THEN desugar(base.ty)[2] ELSE base.ty
      witness == findNamedWitness(S, getRValueType(type), protocol, name)
      openedType == getTypeOfMemberReference(S, base.ty, witness)
      arg == IF Len(arguments) = 1 THEN arguments[1]
             ELSE [k |-> "TupleExpr",
                   ty |-> Tuple([i \in 1..Len(arguments) |->
                                   TupleTypeElt(arguments[i].ty, "", "None", FALSE)]),
                   sub |-> arguments, id |-> <<"w", "TupleExpr", base.id>>,
                   x |-> <<>>]
      solved == solveConversion(arg.ty, desugar(openedType)[2])
      solution == [bind |-> EmptyMap, restr |-> solved.restr, ovl |-> EmptyMap,
                   owners |-> EmptyMap, env |-> S.env]
      memberRef == recurse("buildMemberRef", <<solution, base, witness, openedType,
                                  Locator(base.id, <<>>), MaxCoerceDepth>>)
      apply == CallExpr(memberRef, arg)
  IN
  IF witness = NoDecl THEN Null
  ELSE IF witness = StopDecl THEN Crash
  ELSE IF ~is(openedType, "fn") THEN Crash
  ELSE IF solved.failed
    THEN (IF S.env.asserts \/ S.env.emptyFront = "Crash" THEN Crash ELSE Null)
  ELSE IF Stopped(memberRef) THEN memberRef
  ELSE recurse("finishApply", <<solution, apply, openedType, Locator(arg.id, <<>>),
                   MaxCoerceDepth>>)

\* The isBuiltinArgType callbacks: nullptr, and the lambda of
\* visitCharacterLiteralExpr.
isBuiltinArgType(check, argType) ==
  CASE check = "nullptr" -> TRUE
    [] check = "width21" -> is(argType, "bint") /\ desugar(argType)[2] = 21

\* The arguments of convertLiteral.
LiteralConversion(literal, type, openedType, protocol, literalType, literalFuncName, builtinProtocol, builtinLiteralType, builtinLiteralFuncName, check) ==
  [literal |-> literal, type |-> type, openedType |-> openedType,
   protocol |-> protocol, literalType |-> literalType,
   literalFuncName |-> literalFuncName, builtinProtocol |-> builtinProtocol,
   builtinLiteralType |-> builtinLiteralType,
   builtinLiteralFuncName |-> builtinLiteralFuncName, check |-> check]


\* convertLiteral, the branch of a type that conforms to the builtin
\* protocol.
convertLiteralBuiltin(S, a) ==
  LET argType == IF Kind(a.builtinLiteralType) # "Identifier"
                 THEN a.builtinLiteralType
                 ELSE getWitnessType(S, a.type, a.builtinProtocol,
                                     a.builtinLiteralType[2])
      literal == setType(a.literal, argType)
      base == MetatypeExpr(a.type, a.literal.id)
      called == recurse("callWitness", <<S, base, a.builtinProtocol, a.builtinLiteralFuncName,
                            <<literal>>>>)
  IN
  IF argType = NoType THEN Null
  ELSE IF ~isBuiltinArgType(a.check, argType) THEN Null
  ELSE IF IsExpr(called) THEN setType(called, a.type)
  ELSE called

\* convertLiteral, the branch of a type that conforms to the protocol only.
convertLiteralGeneral(S, a) ==
  LET argType == IF Kind(a.literalType) # "Identifier" THEN a.literalType
                 ELSE getWitnessType(S, a.type, a.protocol, a.literalType[2])
      converted ==
        recurse("convertLiteral", <<S, [a EXCEPT !.type = argType, !.openedType = argType,
                                    !.protocol = NoProtocol,
                                    !.literalType = Identifier(""),
                                    !.literalFuncName = ""]>>)
      base == MetatypeExpr(a.type, converted.id)
      literal == recurse("callWitness", <<S, base, a.protocol, a.literalFuncName, <<converted>>>>)
  IN
  IF a.protocol = NoProtocol THEN Crash
  ELSE IF S.env.asserts /\ ~conformsToProtocol(S, a.type, a.protocol) THEN Crash
  ELSE IF argType = NoType THEN Null
  ELSE IF ~IsExpr(converted) THEN converted
  ELSE IF IsExpr(literal) THEN setType(literal, a.type)
  ELSE literal

\* A convertLiteral that asks for the protocol before the builtin protocol.
convertLiteralGeneralFirst(S, a) ==
  IF a.protocol # NoProtocol /\ conformsToProtocol(S, a.type, a.protocol)
  THEN recurse("convertLiteralGeneral", <<S, a>>)
  ELSE IF conformsToProtocol(S, a.type, a.builtinProtocol)
  THEN recurse("convertLiteralBuiltin", <<S, a>>)
  ELSE recurse("convertLiteralGeneral", <<S, a>>)

\* ExprRewriter::convertLiteral
convertLiteral(S, a) ==
  IF conformsToProtocol(S, a.type, a.builtinProtocol)
  THEN recurse("convertLiteralBuiltin", <<S, a>>)
  ELSE recurse("convertLiteralGeneral", <<S, a>>)

\* The choice of the default literal type's spelling.
preferDefaultType(S, type, proto) ==
  LET defaultType == getDefaultType(S, proto) IN
  IF defaultType # NoType /\ isEqual(defaultType, type) THEN defaultType ELSE type

\* ExprRewriter::handleIntegerLiteralExpr
handleIntegerLiteralExpr(S, expr) ==
  LET type == preferDefaultType(S,
                preferDefaultType(S, simplifyType(S, expr.ty),
                                  "IntegerLiteralConvertible"),
                "FloatLiteralConvertible")
      maxType == S.env.maxBuiltinIntegerType
  IN
  IF maxType = NoType \/ ~is(maxType, "bint") THEN Null
  ELSE recurse("convertLiteral", <<S,
         LiteralConversion(expr, type, expr.ty, "IntegerLiteralConvertible",
                           Identifier("IntegerLiteralType"),
                           "convertFromIntegerLiteral",
                           "BuiltinIntegerLiteralConvertible", maxType,
                           "_convertFromBuiltinIntegerLiteral", "nullptr")>>)

\* ExprRewriter::visitCharacterLiteralExpr
visitCharacterLiteralExpr(S, expr) ==
  LET type == preferDefaultType(S, simplifyType(S, expr.ty),
                                "CharacterLiteralConvertible")
  IN recurse("convertLiteral", <<S,
       LiteralConversion(expr, type, expr.ty, "CharacterLiteralConvertible",
                         Identifier("CharacterLiteralType"),
                         "convertFromCharacterLiteral",
                         "BuiltinCharacterLiteralConvertible", BuiltinInteger(21),
                         "_convertFromBuiltinCharacterLiteral", "width21")>>)

---------------------------------------------------------------------------
(* Conversions through the builtin protocols, subscripts and conditional    *)
(* checked casts.                                                           *)

\* TypeChecker::lookupMember(type, name, dc): the members of that name the
\* program declares in the type, in declaration order.
lookupMember(S, type, name) ==
  LET key == <<getCanonicalType(type), name>> IN
  IF key \in DOMAIN S.env.members THEN S.env.members[key] ELSE <<>>

\* What a conversion hands back: the expression, the diagnostics emitted and
\* the member and witness lookups made, in order.
Converted(res, dg, lg) == [res |-> res, dg |-> dg, lg |-> lg]

\* Type::isBuiltinIntegerType(n)
isBuiltinIntegerType(t, n) == is(t, "bint") /\ getCanonicalType(t)[2] = n

\* new (tc.Context) TupleExpr(start, { }, nullptr, end, false, true, ())
EmptyTupleExpr(origin) ==
  [k |-> "TupleExpr", ty |-> Tuple(<<>>), sub |-> <<>>,
   id |-> <<"w", "TupleExpr", origin>>, x |-> <<>>]

\* The call that convertViaBuiltinProtocol makes of a member reference it
\* built: a reference that is not an expression is what the call hands back.
callBuilt(S, base, opened, memberRef, locator, fuel) ==
  IF ~IsExpr(memberRef) THEN (IF IsNull(memberRef) THEN Crash ELSE memberRef)
  ELSE recurse("finishApply", <<S, CallExpr(memberRef, EmptyTupleExpr(base.id)), opened,
                               locator, fuel - 1>>)

\* The call base.member() that convertViaBuiltinProtocol builds twice:
\* buildMemberRef for the member, then finishApply of the call with an empty
\* argument tuple.  A null member reference is dereferenced by the call.
callMember(S, base, member, locator, fuel) ==
  callBuilt(S, base, desugar(member.ty)[3],
            recurse("buildMemberRef", <<S, base, member, desugar(member.ty)[3], locator,
                                       fuel - 1>>),
            locator, fuel)

\* convertViaBuiltinProtocol, from the check of the builtin witnesses on.
convertViaBuiltinMethod(S, base, witnesses, locator, brokenProtocolDiag, brokenBuiltinDiag, lg, fuel) ==
  IF witnesses = <<>> THEN Converted(Null, <<brokenProtocolDiag>>, lg)
  ELSE IF Len(witnesses) # 1 THEN Converted(Null, <<brokenBuiltinDiag>>, lg)
  ELSE IF witnesses[1].kind # "func" THEN Converted(Null, <<brokenBuiltinDiag>>, lg)
  ELSE IF Kind(desugar(witnesses[1].ty)) # "fn" THEN Converted(Crash, <<>>, lg)
  ELSE Converted(callMember(S, base, witnesses[1], locator, fuel), <<>>, lg)

\* convertViaBuiltinProtocol after the call of the general name: the type
\* of the call is read, so a null call is dereferenced; then the second
\* lookup of the builtin name.
convertViaGeneralCall(S, general, locator, builtinName, brokenProtocolDiag, brokenBuiltinDiag, lg, fuel) ==
  IF ~IsExpr(general)
    THEN Converted(IF IsNull(general) THEN Crash ELSE general, <<>>, lg)
  ELSE convertViaBuiltinMethod(
         S, general, lookupMember(S, getRValueType(general.ty), builtinName), locator,
         brokenProtocolDiag, brokenBuiltinDiag,
         Append(lg, <<"lookupMember", getCanonicalType(getRValueType(general.ty)),
                      builtinName>>),
         fuel)

\* convertViaBuiltinProtocol when the first lookup finds nothing: the
\* general name, through the witness table.
convertViaGeneralName(S, expr, witness, locator, builtinName, brokenProtocolDiag, brokenBuiltinDiag, lg, fuel) ==
  IF witness = NoDecl THEN Converted(Crash, <<brokenProtocolDiag>>, lg)
  ELSE IF witness = StopDecl \/ Kind(desugar(witness.ty)) # "fn"
    THEN Converted(Crash, <<>>, lg)
  ELSE convertViaGeneralCall(S, callMember(S, expr, witness, locator, fuel), locator,
                             builtinName, brokenProtocolDiag, brokenBuiltinDiag, lg, fuel)

\* convertViaBuiltinProtocol, after the first lookup of the builtin name.
convertViaLookup(S, expr, type, witnesses, locator, protocol, generalName, builtinName, brokenProtocolDiag, brokenBuiltinDiag, fuel) ==
  IF witnesses = <<>>
  THEN convertViaGeneralName(
         S, expr, findNamedWitness(S, type, protocol, generalName), locator,
         builtinName, brokenProtocolDiag, brokenBuiltinDiag,
         <<<<"lookupMember", getCanonicalType(type), builtinName>>,
           <<"findNamedWitness", getCanonicalType(type), protocol, generalName>>>>,
         fuel)
  ELSE convertViaBuiltinMethod(
         S, expr, witnesses, locator, brokenProtocolDiag, brokenBuiltinDiag,
         <<<<"lookupMember", getCanonicalType(type), builtinName>>>>, fuel)

\* convertViaBuiltinProtocol
convertViaBuiltinProtocol(S, expr, locator, protocol, generalName, builtinName, brokenProtocolDiag, brokenBuiltinDiag, fuel) ==
  convertViaLookup(S, expr, getRValueType(expr.ty),
                   lookupMember(S, getRValueType(expr.ty), builtinName), locator,
                   protocol, generalName, builtinName, brokenProtocolDiag,
                   brokenBuiltinDiag, fuel)

\* The check that ends convertToLogicValue: the converted expression is a
\* Builtin.Int1.
requireBuiltinInt1(c) ==
  IF IsExpr(c.res) /\ ~isBuiltinIntegerType(c.res.ty, 1)
  THEN Converted(Null, Append(c.dg, "broken_bool"), c.lg)
  ELSE c

\* convertToLogicValue without its special case.
convertToLogicValueViaProtocol(S, expr, locator, fuel) ==
  requireBuiltinInt1(
    convertViaBuiltinProtocol(S, expr, locator, "LogicValue", "getLogicValue",
                              "_getBuiltinLogicValue", "condition_broken_proto",
                              "broken_bool", fuel))

\* Solution::convertToLogicValue
convertToLogicValue(S, expr, locator, fuel) ==
  IF isBuiltinIntegerType(getRValueType(expr.ty), 1)
  THEN Converted(coerceToRValue(expr), <<>>, <<>>)
  ELSE convertToLogicValueViaProtocol(S, expr, locator, fuel)

\* The check that ends convertToArrayBound: the converted expression is a
\* builtin integer.
requireBuiltinInteger(c) ==
  IF IsExpr(c.res) /\ ~is(c.res.ty, "bint")
  THEN Converted(Null, Append(c.dg, "broken_builtin_array_bound"), c.lg)
  ELSE c

\* Solution::convertToArrayBound
convertToArrayBound(S, expr, locator, fuel) ==
  requireBuiltinInteger(
    convertViaBuiltinProtocol(S, expr, locator, "ArrayBound", "getArrayBoundValue",
                              "_getBuiltinArrayBoundValue", "broken_array_bound_proto",
                              "broken_builtin_array_bound", fuel))

\* The result type of a subscript that is not accessed by value.
resultByValue(resultTy) == resultTy

\* LValueType::get(resultTy, LValueType::Qual::DefaultForMemberAccess, ctx)
memberAccessLValue(resultTy) == LValue(resultTy, "member")

\* new (tc.Context) K(base, index, subscript); setType(ty), for K one of
\* DynamicSubscriptExpr, ArchetypeSubscriptExpr, SubscriptExpr and
\* ExistentialSubscriptExpr.
SubscriptNode(k, base, index, subscript, ty) == Node(k, ty, <<base, index>>, subscript)

\* ExprRewriter::buildSubscript
buildSubscript(S, base, index0, locator, fuel) ==
  LET memberLocator == withPathElement(locator, <<"SubscriptMember">>)
      selected == getOverloadChoice(S, memberLocator)
      subscript == selected.decl
      baseTy == getRValueType(base.ty)
      containerTy == subscript.container
      subscriptTy == desugar(simplifyType(S, selected.opened))
      indexTy == subscriptTy[2]
      resultTy == getRValueType(subscriptTy[3])
      index == recurse("coerceToType",
                       <<S, index0, indexTy,
                         withPathElement(locator, <<"SubscriptIndex">>), fuel - 1>>)
      ownBase == recurse("coerceObjectArgumentToType",
                         <<S, base, baseTy, locator, fuel - 1>>)
      genericBase == recurse("coerceObjectArgumentToType",
                             <<S, base, subscript.substContainer, locator, fuel - 1>>)
      containerBase == recurse("coerceObjectArgumentToType",
                               <<S, base, containerTy, locator, fuel - 1>>)
      finish(k, b, ty) ==
        IF IsExpr(b) THEN SubscriptNode(k, b, index, subscript, ty) ELSE b
  IN
  IF ~hasOverloadChoice(S, memberLocator) THEN Crash
  ELSE IF selected.kind \notin {"Decl", "DeclViaDynamic"} THEN Crash
  ELSE IF subscript.kind # "subscript" THEN Crash
  ELSE IF Stopped(base) \/ IsNull(base) THEN Crash
  ELSE IF Kind(subscriptTy) # "fn" THEN Crash
  ELSE IF ~IsExpr(index) THEN index
  ELSE IF selected.kind = "DeclViaDynamic"
    THEN finish("DynamicSubscriptExpr", ownBase, resultTy)
  ELSE IF is(baseTy, "arch") /\ is(containerTy, "exist")
    THEN finish("ArchetypeSubscriptExpr", ownBase, resultTy)
  ELSE IF subscript.generic
    THEN finish("SubscriptExpr", genericBase, memberAccessLValue(resultTy))
  ELSE IF is(baseTy, "exist")
    THEN finish("ExistentialSubscriptExpr", ownBase, memberAccessLValue(resultTy))
  ELSE finish("SubscriptExpr", containerBase, memberAccessLValue(resultTy))

ValidCastKinds ==
  {"Downcast", "SuperToArchetype", "ArchetypeToArchetype", "ArchetypeToConcrete",
   "ExistentialToArchetype", "ExistentialToConcrete"}
CheckedCastKinds == {"Unresolved", "InvalidCoercible"} \cup ValidCastKinds

\* TypeChecker::getOptionalType(loc, type)
getOptionalType(type) == Optional(type)

\* TypeChecker::typeCheckCheckedCast(fromType, toType, ...): the kind the
\* type checker classifies the cast as.
typeCheckCheckedCast(expr, fromType, toType) == expr.x.classified

\* A classifier that resolves no cast.
checkCheckedCastExprUnresolved(S, expr) == [kind |-> "Unresolved", expr |-> expr]

\* ExprRewriter::checkCheckedCastExpr: the kind, and the node with the
\* subexpression it was left with.
checkCheckedCastExpr(S, expr) ==
  LET sub == coerceToRValue(expr.sub[1])
      checked == [expr EXCEPT !.sub[1] = sub]
  IN
  IF ~expr.x.subChecks THEN [kind |-> "Unresolved", expr |-> expr]
  ELSE IF IsNull(sub) \/ Stopped(sub) THEN [kind |-> "Unresolved", expr |-> expr]
  ELSE [kind |-> typeCheckCheckedCast(checked, sub.ty, expr.x.castType),
        expr |-> checked]

\* ExprRewriter::checkAsCastExpr
checkAsCastExpr(S, expr0, st, fuel) ==
  LET toType == expr0.x.castType
      c == checkCheckedCastExpr(S, expr0)
      expr == c.expr
      complained == IF expr.x.implicit THEN st
                    ELSE diagnose(st, expr.id, "downcast_to_supertype")
      coerced == recurse("coerceToType",
                         <<S, expr.sub[1], toType, Locator(expr.id, <<>>), fuel>>)
  IN
  CASE c.kind = "Unresolved" -> Visited(Null, st)
    [] c.kind = "InvalidCoercible" ->
         IF isEqual(expr.ty, expr.sub[1].ty) THEN Visited(expr.sub[1], complained)
         ELSE IF Stopped(coerced) THEN Visited(coerced, complained)
         ELSE Visited(InjectIntoOptionalExpr(coerced, Optional(toType)), complained)
    [] OTHER -> Visited([expr EXCEPT !.x.castKind = c.kind], st)

\* ExprRewriter::visitConditionalCheckedCastExpr
visitConditionalCheckedCastExpr(S, expr, st, fuel) ==
  checkAsCastExpr(S, setType(expr, getOptionalType(expr.x.castType)), st, fuel)

---------------------------------------------------------------------------
\* The operations of the rewriter call each other through recurse: op names
\* the operation and a is the tuple of its arguments.
recurse(op, a) ==
  CASE op = "TupleDestStep" -> TupleDestStep(a[1], a[2], a[3], a[4], a[5])
    [] op = "TupleDestLoop" -> TupleDestLoop(a[1], a[2], a[3], a[4], a[5])
    [] op = "TupleVariadicStep" -> TupleVariadicStep(a[1], a[2], a[3], a[4], a[5])
    [] op = "TupleVariadicLoop" -> TupleVariadicLoop(a[1], a[2], a[3], a[4], a[5])
    [] op = "coerceTupleToTuple" -> coerceTupleToTuple(a[1], a[2], a[3], a[4], a[5], a[6], a[7])
    [] op = "coerceScalarToTuple" -> coerceScalarToTuple(a[1], a[2], a[3], a[4], a[5], a[6])
    [] op = "applyRestriction" -> applyRestriction(a[1], a[2], a[3], a[4], a[5], a[6])
    [] op = "coerceToFunction" -> coerceToFunction(a[1], a[2], a[3], a[4], a[5])
    [] op = "coerceToTypeRestrictionFirst" -> coerceToTypeRestrictionFirst(a[1], a[2], a[3], a[4], a[5])
    [] op = "coerceToType" -> coerceToType(a[1], a[2], a[3], a[4], a[5])
    [] op = "coerceObjectArgumentToType" -> coerceObjectArgumentToType(a[1], a[2], a[3], a[4], a[5])
    [] op = "finishApply" -> finishApply(a[1], a[2], a[3], a[4], a[5])
    [] op = "coerceViaUserConversion" -> coerceViaUserConversion(a[1], a[2], a[3], a[4], a[5])
    [] op = "buildMemberRef" -> buildMemberRef(a[1], a[2], a[3], a[4], a[5], a[6])
    [] op = "visitUnresolvedDotExpr" -> visitUnresolvedDotExpr(a[1], a[2], a[3])
    [] op = "visitApplyExpr" -> visitApplyExpr(a[1], a[2], a[3])
    [] op = "visitIfExpr" -> visitIfExpr(a[1], a[2])
    [] op = "visitAssignExpr" -> visitAssignExpr(a[1], a[2])
    [] op = "coerceSegments" -> coerceSegments(a[1], a[2], a[3], a[4], a[5])
    [] op = "visitInterpolatedStringLiteralExpr" -> visitInterpolatedStringLiteralExpr(a[1], a[2])
    [] op = "visit" -> visit(a[1], a[2], a[3])
    [] op = "walkChildren" -> walkChildren(a[1], a[2], a[3], a[4])
    [] op = "walkIfExpr" -> walkIfExpr(a[1], a[2], a[3])
    [] op = "walkClosureExpr" -> walkClosureExpr(a[1], a[2], a[3])
    [] op = "walkAssignExpr" -> walkAssignExpr(a[1], a[2], a[3])
    [] op = "walk" -> walk(a[1], a[2], a[3])
    [] op = "callWitness" -> callWitness(a[1], a[2], a[3], a[4], a[5])
    [] op = "convertLiteralBuiltin" -> convertLiteralBuiltin(a[1], a[2])
    [] op = "convertLiteralGeneral" -> convertLiteralGeneral(a[1], a[2])
    [] op = "convertLiteralGeneralFirst" -> convertLiteralGeneralFirst(a[1], a[2])
    [] op = "convertLiteral" -> convertLiteral(a[1], a[2])
    [] op = "handleIntegerLiteralExpr" -> handleIntegerLiteralExpr(a[1], a[2])
    [] op = "visitCharacterLiteralExpr" -> visitCharacterLiteralExpr(a[1], a[2])
    [] op = "convertToLogicValue" -> convertToLogicValue(a[1], a[2], a[3], a[4])
    [] op = "convertToArrayBound" -> convertToArrayBound(a[1], a[2], a[3], a[4])
    [] op = "buildSubscript" -> buildSubscript(a[1], a[2], a[3], a[4], a[5])
    [] op = "visitConditionalCheckedCastExpr" -> visitConditionalCheckedCastExpr(a[1], a[2], a[3], a[4])
---------------------------------------------------------------------------
(* Specification SpecLiteral: the rewriter's visit of one integer or       *)
(* character literal of the program.                                       *)

MaxInt == BuiltinInteger(2048)
MoneyTy == Nominal("Money")
CharTy == Nominal("Char")
GlyphTy == Nominal("Glyph")
ArchLiteral == Archetype("T.IntegerLiteralType")
SelfTy == Archetype("Self")

\* static func name(param) -> container, as a witness of a type and as a
\* requirement of a protocol.
StaticWitness(name, container, param) ==
  Decl(name, "func", container, FALSE, FALSE,
       Function(MetaType(container), Function(param, container, "plain"), "plain"),
       2, NoType, NoType)
Requirement(name, proto, param) ==
  Decl(name, "func", Existential(proto), FALSE, FALSE,
       Function(MetaType(SelfTy), Function(param, SelfTy, "plain"), "plain"),
       2, NoType, NoType)

\* The literal protocols: [protocol, builtin protocol, associated type,
\* requirement, builtin requirement].
IntegerLiteral ==
  [protocol |-> "IntegerLiteralConvertible",
   builtinProtocol |-> "BuiltinIntegerLiteralConvertible",
   literalType |-> "IntegerLiteralType",
   literalFuncName |-> "convertFromIntegerLiteral",
   builtinLiteralFuncName |-> "_convertFromBuiltinIntegerLiteral"]
CharacterLiteral ==
  [protocol |-> "CharacterLiteralConvertible",
   builtinProtocol |-> "BuiltinCharacterLiteralConvertible",
   literalType |-> "CharacterLiteralType",
   literalFuncName |-> "convertFromCharacterLiteral",
   builtinLiteralFuncName |-> "_convertFromBuiltinCharacterLiteral"]
literalProtocols(expr) ==
  IF expr.k = "IntegerLiteralExpr" THEN IntegerLiteral ELSE CharacterLiteral

\* The program: Int and Char convert from the builtin literals and from
\* themselves, Money from Int, Glyph from Char, and the archetype T from its
\* associated literal type.
LiteralConformances ==
  {<<IntTy, IntegerLiteral.protocol>>, <<IntTy, IntegerLiteral.builtinProtocol>>,
   <<MoneyTy, IntegerLiteral.protocol>>, <<ArchT, IntegerLiteral.protocol>>,
   <<ArchLiteral, IntegerLiteral.builtinProtocol>>,
   <<CharTy, CharacterLiteral.protocol>>,
   <<CharTy, CharacterLiteral.builtinProtocol>>,
   <<GlyphTy, CharacterLiteral.protocol>>}

LiteralWitnessTypes ==
  (<<IntTy, IntegerLiteral.protocol, IntegerLiteral.literalType>> :> IntTy)
  @@ (<<MoneyTy, IntegerLiteral.protocol, IntegerLiteral.literalType>>
        :> NameAlias("IntegerLiteralType", IntTy))
  @@ (<<ArchT, IntegerLiteral.protocol, IntegerLiteral.literalType>> :> ArchLiteral)
  @@ (<<CharTy, CharacterLiteral.protocol, CharacterLiteral.literalType>> :> CharTy)
  @@ (<<GlyphTy, CharacterLiteral.protocol, CharacterLiteral.literalType>>
        :> CharTy)

LiteralWitnesses ==
  (<<IntTy, IntegerLiteral.builtinProtocol, IntegerLiteral.builtinLiteralFuncName>>
     :> StaticWitness(IntegerLiteral.builtinLiteralFuncName, IntTy, MaxInt))
  @@ (<<IntTy, IntegerLiteral.protocol, IntegerLiteral.literalFuncName>>
     :> StaticWitness(IntegerLiteral.literalFuncName, IntTy,
                      Tuple(<<Named("value", IntTy)>>)))
  @@ (<<MoneyTy, IntegerLiteral.protocol, IntegerLiteral.literalFuncName>>
     :> StaticWitness(IntegerLiteral.literalFuncName, MoneyTy,
                      Tuple(<<Named("value", IntTy)>>)))
  @@ (<<CharTy, CharacterLiteral.builtinProtocol,
        CharacterLiteral.builtinLiteralFuncName>>
     :> StaticWitness(CharacterLiteral.builtinLiteralFuncName, CharTy,
                      Tuple(<<Named("value", BuiltinInteger(21))>>)))
  @@ (<<CharTy, CharacterLiteral.protocol, CharacterLiteral.literalFuncName>>
     :> StaticWitness(CharacterLiteral.literalFuncName, CharTy, CharTy))
  @@ (<<GlyphTy, CharacterLiteral.protocol, CharacterLiteral.literalFuncName>>
     :> StaticWitness(CharacterLiteral.literalFuncName, GlyphTy, CharTy))

\* The members of the literal protocols; `broken` marks the requirement of
\* the non-builtin protocols invalid.
LiteralProtocols(broken) ==
  (IntegerLiteral.protocol :>
     <<[decl |-> Requirement(IntegerLiteral.literalFuncName,
                             IntegerLiteral.protocol, ArchLiteral),
        invalid |-> broken]>>)
  @@ (IntegerLiteral.builtinProtocol :>
     <<[decl |-> Requirement(IntegerLiteral.builtinLiteralFuncName,
                             IntegerLiteral.builtinProtocol, MaxInt),
        invalid |-> FALSE]>>)
  @@ (CharacterLiteral.protocol :>
     <<[decl |-> Requirement(CharacterLiteral.literalFuncName,
                             CharacterLiteral.protocol, CharTy),
        invalid |-> broken]>>)
  @@ (CharacterLiteral.builtinProtocol :>
     <<[decl |-> Requirement(CharacterLiteral.builtinLiteralFuncName,
                             CharacterLiteral.builtinProtocol, BuiltinInteger(21)),
        invalid |-> FALSE]>>)

\* The requirements as members of the archetypes.
LiteralOpenedTypes ==
  (<<ArchT, IntegerLiteral.literalFuncName>>
     :> Function(ArchLiteral, ArchT, "plain"))
  @@ (<<ArchLiteral, IntegerLiteral.builtinLiteralFuncName>>
     :> Function(MaxInt, ArchLiteral, "plain"))

LiteralDefaults ==
  (IntegerLiteral.protocol :> NameAlias("IntegerLiteralType", IntTy))
  @@ (CharacterLiteral.protocol :> NameAlias("CharacterLiteralType", CharTy))
  @@ ("FloatLiteralConvertible" :> NameAlias("FloatLiteralType", Nominal("Double")))

LiteralBindings == (1 :> IntTy) @@ (2 :> MoneyTy) @@ (3 :> GlyphTy)

LiteralExprs ==
  {Orig("IntegerLiteralExpr", t, <<>>, 1, <<>>) :
     t \in {IntTy, MoneyTy, ArchT, NameAlias("MyInt", IntTy), TV1, TV2}}
  \cup {Orig("CharacterLiteralExpr", t, <<>>, 1, <<>>) : t \in {CharTy, GlyphTy, TVT}}

LiteralEnv(asserts, emptyFront, defaults, maxType, witnessTypes, broken) ==
  [asserts |-> asserts, injectionFn |-> TRUE, checkSubstitutions |-> TRUE,
   conformances |-> Conformances \cup LiteralConformances,
   protocols |-> LiteralProtocols(broken), witnesses |-> LiteralWitnesses,
   defaultTypes |-> defaults, maxBuiltinIntegerType |-> maxType,
   witnessTypes |-> witnessTypes, openedTypes |-> LiteralOpenedTypes,
   emptyFront |-> emptyFront]

InitLiteral ==
  /\ pc = "literal"
  /\ \E expr \in LiteralExprs, asserts \in BOOLEAN, broken \in BOOLEAN,
        emptyFront \in {"Crash", "Null"},
        defaults \in {EmptyMap, LiteralDefaults},
        maxType \in {MaxInt, NoType, IntTy},
        witnessTypes \in {LiteralWitnessTypes, EmptyMap} :
       input = [expr |-> expr,
                S |-> [bind |-> LiteralBindings, restr |-> EmptyMap,
                       ovl |-> EmptyMap, owners |-> EmptyMap,
                       env |-> LiteralEnv(asserts, emptyFront, defaults, maxType,
                                          witnessTypes, broken)]]
  /\ result = Null
  /\ ValueTypeMemberApplications = EmptyMap
  /\ LeftSideOfAssignment = 0
  /\ dc = "top"
  /\ diags = <<>>
  /\ log = <<>>

\* The rewriter's visit of the literal.
VisitLiteral ==
  /\ pc = "literal"
  /\ result' = IF input.expr.k = "IntegerLiteralExpr"
               THEN recurse("handleIntegerLiteralExpr", <<input.S, input.expr>>)
               ELSE recurse("visitCharacterLiteralExpr", <<input.S, input.expr>>)
  /\ pc' = "converted"
  /\ UNCHANGED <<input, ValueTypeMemberApplications, LeftSideOfAssignment, dc,
                 diags, log>>

NextLiteral == VisitLiteral

SpecLiteral == InitLiteral /\ [][NextLiteral]_vars

---------------------------------------------------------------------------
(* Literal conversion: what a converted literal looks like.                *)

\* The declaration a call's function refers to.
RECURSIVE calleeDecl(_)
calleeDecl(fn) ==
  CASE fn.k \in {"DeclRefExpr", "MemberRefExpr", "ArchetypeMemberRefExpr",
                 "ExistentialMemberRefExpr"} -> fn.x
    [] fn.k \in {"DotSyntaxCallExpr", "SpecializeExpr"} -> calleeDecl(fn.sub[1])
    [] fn.k = "DotSyntaxBaseIgnoredExpr" -> calleeDecl(fn.sub[2])
    [] OTHER -> NoDecl

\* The number of calls in the tree whose callee is one of the declarations.
RECURSIVE witnessCalls(_, _)
RECURSIVE witnessCallsIn(_, _, _)
witnessCallsIn(subs, i, decls) ==
  IF i > Len(subs) THEN 0
  ELSE witnessCalls(subs[i], decls) + witnessCallsIn(subs, i + 1, decls)
witnessCalls(e, decls) ==
  (IF e.k = "CallExpr" /\ calleeDecl(e.sub[1]) \in decls THEN 1 ELSE 0)
  + witnessCallsIn(e.sub, 1, decls)

\* The types of the literal nodes of the tree.
RECURSIVE literalTypes(_)
literalTypes(e) ==
  IF e.k \in {"IntegerLiteralExpr", "CharacterLiteralExpr"} THEN {e.ty}
  ELSE UNION {literalTypes(e.sub[i]) : i \in 1..Len(e.sub)}

\* Every declaration that satisfies or states the requirement.
witnessesNamed(S, proto, name) ==
  {S.env.witnesses[key] :
     key \in {w \in DOMAIN S.env.witnesses : w[2] = proto /\ w[3] = name}}
  \cup {S.env.protocols[proto][i].decl : i \in 1..Len(S.env.protocols[proto])}

literalTarget == simplifyType(input.S, input.expr.ty)
literalConverted == pc = "converted" /\ IsExpr(result)
conformsDirectly ==
  conformsToProtocol(input.S, literalTarget, literalProtocols(input.expr).builtinProtocol)
builtinArgumentType ==
  IF input.expr.k = "IntegerLiteralExpr" THEN input.S.env.maxBuiltinIntegerType
  ELSE BuiltinInteger(21)

\* C8: a literal conversion that succeeds yields a node whose type is the
\* simplified destination type (spelled as that type or as the default
\* literal type equal to it); the tree has exactly one call of the witness
\* of the protocol for the destination type, or, when the destination type
\* conforms to the builtin protocol, exactly one call of its builtin
\* witness, no call of a witness of the protocol, and the literal node has
\* the builtin argument type.
C8_ConvertedLiteralCallsItsWitnessOnce ==
  literalConverted =>
    LET S == input.S
        p == literalProtocols(input.expr)
        general == findNamedWitness(S, literalTarget, p.protocol, p.literalFuncName)
        builtin == findNamedWitness(S, literalTarget, p.builtinProtocol,
                                    p.builtinLiteralFuncName)
    IN /\ isEqual(result.ty, literalTarget)
       /\ result.ty \in {literalTarget, getDefaultType(S, p.protocol)}
       /\ IF conformsDirectly
          THEN /\ witnessCalls(result, {builtin}) = 1
               /\ witnessCalls(result, witnessesNamed(S, p.protocol,
                                                      p.literalFuncName)) = 0
               /\ literalTypes(result) = {builtinArgumentType}
          ELSE witnessCalls(result, {general}) = 1

\* A literal of a type that conforms to the protocol only was converted:
\* the call of its witness has the call of the builtin witness of the
\* argument type as its argument.
C8_Witness ==
  /\ literalConverted
  /\ ~conformsDirectly
  /\ result.k = "CallExpr"
  /\ witnessCalls(result.sub[2], witnessesNamed(input.S,
        literalProtocols(input.expr).builtinProtocol,
        literalProtocols(input.expr).builtinLiteralFuncName)) = 1

---------------------------------------------------------------------------
(* Specification SpecSubst: Solution::specialize and                       *)
(* Solution::computeSubstitutions on a reference to a generic function of  *)
(* the program, under a solution of the solver.                            *)

\* The position of an archetype in a generic parameter list (0: not in it).
RECURSIVE indexOfArchetype(_, _, _)
indexOfArchetype(params, a, i) ==
  IF i > Len(params) THEN 0
  ELSE IF params[i] = a THEN i
  ELSE indexOfArchetype(params, a, i + 1)

\* cs.openType: every archetype of the generic parameter list becomes the
\* type variable opened from it; other archetypes stay.
RECURSIVE openType(_, _)
openType(t, params) ==
  CASE Kind(t) = "arch" ->
         IF indexOfArchetype(params, t[2], 1) = 0 THEN t
         ELSE TypeVar(indexOfArchetype(params, t[2], 1), t[2])
    [] Kind(t) \in {"meta", "opt", "slice"} -> <<Kind(t), openType(t[2], params)>>
    [] Kind(t) = "fn" ->
         Function(openType(t[2], params), openType(t[3], params), t[4])
    [] Kind(t) = "tuple" ->
         Tuple([i \in 1..Len(t[2]) |->
                  [t[2][i] EXCEPT !.ty = openType(t[2][i].ty, params)]])
    [] OTHER -> t

\* The generic functions of the program: id<T>, first<T, U>, swap<T, U>,
\* some<T>, count<T>, apply<T, U>, and each<T> of a function with the
\* generic parameter V of its own.
ArchU == Archetype("U")
ArchV == Archetype("V")
GenericFunctions ==
  {PolymorphicFunction(<<"T">>, ArchT, ArchT),
   PolymorphicFunction(<<"T", "U">>, Tuple(<<Unnamed(ArchT), Unnamed(ArchU)>>), ArchT),
   PolymorphicFunction(<<"T", "U">>, Tuple(<<Unnamed(ArchT), Unnamed(ArchU)>>),
                       Tuple(<<Unnamed(ArchU), Unnamed(ArchT)>>)),
   PolymorphicFunction(<<"T">>, ArchT, Optional(ArchT)),
   PolymorphicFunction(<<"T">>, ArraySlice(ArchT), IntTy),
   PolymorphicFunction(<<"T", "U">>,
                       Tuple(<<Unnamed(Function(ArchT, ArchU, "plain")),
                               Unnamed(ArchT)>>), ArchU),
   PolymorphicFunction(<<"T">>, Tuple(<<Unnamed(ArchT), Unnamed(ArchV)>>), ArchV)}

openedTypeOf(polyFn) ==
  Function(openType(polyFn[3], polyFn[2]), openType(polyFn[4], polyFn[2]), "plain")

\* What the solver may have bound a type variable to: a type of the
\* program, or one that mentions a generic parameter of the function the
\* reference is in.
FixedTypes ==
  {IntTy, StrTy, Optional(IntTy), ClassD, ArchV, ArraySlice(ArchV), ArchT}

\* A fixed type of the first type variable that mentions the second one.
ChainedTypes == {TypeVar(2, "U"), Optional(TypeVar(2, "U"))}

SubstEnv(asserts, checkSubstitutions) ==
  [asserts |-> asserts, injectionFn |-> TRUE,
   checkSubstitutions |-> checkSubstitutions, conformances |-> Conformances]

InitSubst ==
  /\ pc = "subst"
  /\ \E polyFn \in GenericFunctions, t1 \in FixedTypes \cup ChainedTypes,
        t2 \in FixedTypes,
        asserts \in BOOLEAN, checkSubstitutions \in BOOLEAN :
       input = [expr |-> Orig("DeclRefExpr", polyFn, <<>>, 1,
                              Decl("g", "func", NoType, FALSE, FALSE, polyFn, 1,
                                   NoType, NoType)),
                polyFn |-> polyFn,
                openedType |-> openedTypeOf(polyFn),
                S |-> [bind |-> (1 :> t1) @@ (2 :> t2), restr |-> EmptyMap,
                       ovl |-> EmptyMap, owners |-> EmptyMap,
                       env |-> SubstEnv(asserts, checkSubstitutions)]]
  /\ result = Null
  /\ ValueTypeMemberApplications = EmptyMap
  /\ LeftSideOfAssignment = 0
  /\ dc = "top"
  /\ diags = <<>>
  /\ log = <<>>

\* solution.specialize(expr, polyFn, openedType)
Specialize ==
  /\ pc = "subst"
  /\ result' = specialize(input.S, input.expr, input.polyFn, input.openedType)
  /\ pc' = "specialized"
  /\ UNCHANGED <<input, ValueTypeMemberApplications, LeftSideOfAssignment, dc,
                 diags, log>>

\* solution.computeSubstitutions(polyFn, openedType, substitutions): the
\* result holds the returned type and the substitutions handed to
\* encodeSubstitutions; the null type is Null.
ComputeSubstitutions ==
  /\ pc = "subst"
  /\ LET r == computeSubstitutions(input.S, input.polyFn, input.openedType) IN
     result' = IF r.unbound THEN Crash
               ELSE IF r.failed THEN Null
               ELSE [k |-> "Substitutions", ty |-> r.type, sub |-> <<>>,
                     id |-> NullId, x |-> r.substitutions]
  /\ pc' = "substituted"
  /\ UNCHANGED <<input, ValueTypeMemberApplications, LeftSideOfAssignment, dc,
                 diags, log>>

NextSubst == Specialize \/ ComputeSubstitutions

SpecSubst == InitSubst /\ [][NextSubst]_vars

\* The archetypes a type refers to, those of its replacement types included.
RECURSIVE archetypesOf(_)
archetypesOf(t) ==
  CASE Kind(t) = "arch" -> {t[2]}
    [] Kind(t) \in {"lv", "meta", "opt", "slice"} -> archetypesOf(t[2])
    [] Kind(t) = "subst" -> archetypesOf(t[2]) \cup archetypesOf(t[3])
    [] Kind(t) = "alias" -> archetypesOf(t[3])
    [] Kind(t) = "fn" -> archetypesOf(t[2]) \cup archetypesOf(t[3])
    [] Kind(t) = "poly" -> archetypesOf(t[3]) \cup archetypesOf(t[4])
    [] Kind(t) = "tuple" -> UNION {archetypesOf(t[2][i].ty) : i \in 1..Len(t[2])}
    [] OTHER -> {}

\* The substituted(archetype, replacement) nodes of a type.
RECURSIVE substitutedNodes(_)
substitutedNodes(t) ==
  CASE Kind(t) = "subst" -> {t} \cup substitutedNodes(t[3])
    [] Kind(t) \in {"lv", "meta", "opt", "slice"} -> substitutedNodes(t[2])
    [] Kind(t) = "alias" -> substitutedNodes(t[3])
    [] Kind(t) = "fn" -> substitutedNodes(t[2]) \cup substitutedNodes(t[3])
    [] Kind(t) = "poly" -> substitutedNodes(t[3]) \cup substitutedNodes(t[4])
    [] Kind(t) = "tuple" ->
         UNION {substitutedNodes(t[2][i].ty) : i \in 1..Len(t[2])}
    [] OTHER -> {}

substitutionsBuilt == pc \in {"specialized", "substituted"} /\ IsExpr(result)
genericParameters == {input.polyFn[2][i] : i \in 1..Len(input.polyFn[2])}
openedArchetypes ==
  {typeVariablesOf(input.openedType)[i][3] :
     i \in 1..Len(typeVariablesOf(input.openedType))}
substitutionFor(subs, a) ==
  subs[CHOOSE j \in 1..Len(subs) : subs[j][1] = a][2]

openedVariable(a) ==
  LET tvs == typeVariablesOf(input.openedType) IN
  tvs[CHOOSE j \in 1..Len(tvs) : tvs[j][3] = a]

\* C24, as stated: every entry of the substitution map maps its archetype
\* to the simplified binding of the type variable opened from it, and
\* neither a replacement nor the substituted type contains a type variable,
\* also when a fixed type mentions another bound type variable.
C24_ReplacementsAreSimplifiedBindings ==
  substitutionsBuilt =>
    /\ \A j \in 1..Len(result.x) :
         /\ result.x[j][2] = simplifyType(input.S, openedVariable(result.x[j][1]))
         /\ ~hasTypeVariable(result.x[j][2])
    /\ ~hasTypeVariable(result.ty)

\* What the code does: every entry maps its archetype to the fixed type of
\* the type variable, as the solution has it.
replacementsAreFixedTypes ==
  substitutionsBuilt =>
    \A j \in 1..Len(result.x) :
      result.x[j][2] = getFixedType(input.S, openedVariable(result.x[j][1]))

\* id<T> was specialized under T := Optional<$U>, U := Int: the
\* replacement of T is Optional<$U>.
replacementKeepsTypeVariable ==
  /\ substitutionsBuilt
  /\ pc = "specialized"
  /\ input.S.bind[1] = Optional(TypeVar(2, "U"))
  /\ input.S.bind[2] = IntTy
  /\ result.x = <<<<"T", Optional(TypeVar(2, "U"))>>>>

\* With fixed types that mention no type variable the replacements are the
\* simplified bindings.
replacementsOfPlainBindingsAreSimplified ==
  substitutionsBuilt /\ input.S.bind[1] \notin ChainedTypes =>
    /\ \A j \in 1..Len(result.x) :
         /\ result.x[j][2] = simplifyType(input.S, openedVariable(result.x[j][1]))
         /\ ~hasTypeVariable(result.x[j][2])
    /\ ~hasTypeVariable(result.ty)

---------------------------------------------------------------------------
(* C16: the order of the dispatch of coerceToType.                         *)

\* The rules of the dispatch in their order.
DispatchRules ==
  <<"equal", "restriction", "tupleShuffle", "scalarToTuple", "fromLValue",
    "toLValue", "superclass", "function", "existential", "optional", "user",
    "metatype", "error">>

\* The condition under which a rule is applicable to (expr, toType).
ruleMatches(rule, S, expr, toType) ==
  LET fromType == expr.ty
      toFn == desugar(toType)
  IN
  CASE rule = "equal" -> getCanonicalType(fromType) = getCanonicalType(toType)
    [] rule = "restriction" ->
         <<getCanonicalType(fromType), getCanonicalType(toType)>> \in DOMAIN S.restr
    [] rule = "tupleShuffle" ->
         /\ is(toType, "tuple") /\ is(fromType, "tuple")
         /\ ~computeTupleShuffle(getFields(fromType), getFields(toType),
                                 hasMandatoryTupleLabels(expr)).failed
    [] rule = "scalarToTuple" ->
         is(toType, "tuple") /\ getFieldForScalarInit(toType) # -1
    [] rule = "fromLValue" -> is(fromType, "lv")
    [] rule = "toLValue" -> is(toType, "lv")
    [] rule = "superclass" ->
         /\ mayHaveSuperclass(fromType) /\ getClassOrBoundGenericClass(toType)
         /\ hasSuperClass(fromType, toType)
    [] rule = "function" ->
         is(toType, "fn") /\ (toFn[4] \in {"auto", "block"} \/ is(fromType, "fn"))
    [] rule = "existential" -> is(toType, "exist")
    [] rule = "optional" -> is(toType, "opt")
    [] rule = "user" ->
         \/ getNominalOrBoundGenericNominal(fromType) \/ is(fromType, "arch")
         \/ getNominalOrBoundGenericNominal(toType) \/ is(toType, "arch")
    [] rule = "metatype" -> is(fromType, "meta") /\ is(toType, "meta")
    [] rule = "error" -> TRUE

matchingRules(S, expr, toType) ==
  {i \in DOMAIN DispatchRules : ruleMatches(DispatchRules[i], S, expr, toType)}

firstMatchingRule(S, expr, toType) ==
  LET m == matchingRules(S, expr, toType) IN
  DispatchRules[CHOOSE i \in m : \A j \in m : i <= j]

\* What a rule, applied alone, makes of (expr, toType).
ruleOutcome(rule, S, expr, toType, locator, fuel) ==
  LET fromType == expr.ty
      shuffle == computeTupleShuffle(getFields(fromType), getFields(toType),
                                     hasMandatoryTupleLabels(expr))
      wrap(inner, k) ==
        LET e == recurse("coerceToType", <<S, expr, inner, locator, fuel>>) IN
        IF ~IsExpr(e) THEN e ELSE Node(k, toType, <<e>>, <<>>)
      upcast ==
        IF is(fromType, "arch")
        THEN LET up == ArchetypeToSuperExpr(expr, getSuperClassOf(fromType)) IN
             IF isEqual(up.ty, toType) THEN up ELSE DerivedToBaseExpr(up, toType)
        ELSE DerivedToBaseExpr(expr, toType)
      reread ==
        LET super == expr.k = "SuperRefExpr"
            objTy == IF super THEN getRValueType(toType) ELSE desugar(fromType)[2]
            e0 == IF super THEN setType(expr, LValue(objTy, desugar(fromType)[3]))
                  ELSE expr
        IN IF is(toType, "lv")
           THEN RequalifyExpr(e0, LValue(objTy, desugar(toType)[3]))
           ELSE LoadExpr(e0, objTy)
  IN
  CASE rule = "equal" -> expr
    [] rule = "restriction" ->
         recurse("applyRestriction",
                 <<S, S.restr[<<getCanonicalType(fromType), getCanonicalType(toType)>>],
                   expr, toType, locator, fuel>>)
    [] rule = "tupleShuffle" ->
         recurse("coerceTupleToTuple", <<S, expr, toType, locator, shuffle.sources,
                                         shuffle.variadicArgs, fuel>>)
    [] rule = "scalarToTuple" ->
         recurse("coerceScalarToTuple", <<S, expr, toType,
                                          getFieldForScalarInit(toType), locator, fuel>>)
    [] rule = "fromLValue" ->
         recurse("coerceToType", <<S, reread, toType, locator, fuel>>)
    [] rule = "toLValue" -> wrap(desugar(toType)[2], "MaterializeExpr")
    [] rule = "superclass" -> upcast
    [] rule = "function" ->
         recurse("coerceToFunction", <<S, expr, toType, locator, fuel>>)
    [] rule = "existential" -> coerceExistential(S, expr, toType)
    [] rule = "optional" -> wrap(desugar(toType)[2], "InjectIntoOptionalExpr")
    [] rule = "user" ->
         recurse("coerceViaUserConversion", <<S, expr, toType, locator, fuel>>)
    [] rule = "metatype" -> MetatypeConversionExpr(expr, desugar(toType))
    [] rule = "error" -> Crash

\* C16: coerceToType applies the first rule that matches, in the order
\* equal types, recorded restriction, tuple destination (shuffle, else
\* scalar-to-tuple), lvalue source, lvalue destination, superclass chain,
\* function destination, existential destination, optional destination,
\* user conversion, metatype to metatype, internal error; its result is the
\* outcome of that rule and of no later one.
C16_FirstMatchingRuleIsApplied ==
  pc = "coerced" =>
    result = ruleOutcome(firstMatchingRule(input.S, input.expr, input.toType),
                         input.S, input.expr, input.toType, input.locator,
                         MaxCoerceDepth - 1)

\* An lvalue coerced to an existential: the lvalue-source rule and the
\* existential rule both match, the first of them was applied (a load) and
\* the existential rule then applied to the loaded value.
C16_Witness ==
  /\ pc = "coerced"
  /\ {5, 9, 13} \subseteq matchingRules(input.S, input.expr, input.toType)
  /\ firstMatchingRule(input.S, input.expr, input.toType) = "fromLValue"
  /\ IsExpr(result)
  /\ result.k = "ErasureExpr"
  /\ result.sub[1].k = "LoadExpr"

---------------------------------------------------------------------------
(* C17: the TupleToTuple restriction.                                      *)

\* The solution records TupleToTuple for the pair coerceToType was called
\* on, a pair of different tuple types with a computable shuffle.
tupleToTupleRecorded ==
  /\ <<getCanonicalType(input.expr.ty), getCanonicalType(input.toType)>>
        \in DOMAIN input.S.restr
  /\ input.S.restr[<<getCanonicalType(input.expr.ty),
                     getCanonicalType(input.toType)>>] = "TupleToTuple"
  /\ ruleMatches("tupleShuffle", input.S, input.expr, input.toType)
  /\ ~ruleMatches("equal", input.S, input.expr, input.toType)

\* C17: when the solution records the TupleToTuple restriction for the pair,
\* coerceToType does not dispatch on the restriction; the pair goes to
\* computeTupleShuffle and coerceTupleToTuple, whose result is returned.
C17_TupleToTupleGoesToTheTupleCoercer ==
  (pc = "coerced" /\ tupleToTupleRecorded) =>
    /\ ~Stopped(result)
    /\ result = ruleOutcome("tupleShuffle", input.S, input.expr, input.toType,
                            input.locator, MaxCoerceDepth - 1)

---------------------------------------------------------------------------
(* C18: default arguments in coerceTupleToTuple.                           *)

\* The sources computeTupleShuffle hands to coerceTupleToTuple.
shuffleSources ==
  computeTupleShuffle(getFields(input.expr.ty), getFields(input.toType),
                      hasMandatoryTupleLabels(input.expr)).sources

\* coerceToType went to the tuple coercer and a shuffle came back.
tupleCoerced ==
  /\ pc = "coerced"
  /\ firstMatchingRule(input.S, input.expr, input.toType) = "tupleShuffle"
  /\ IsExpr(result)
  /\ result.k = "TupleShuffleExpr"

\* The default-argument kind the function resolved from the locator declares
\* for the destination field i.
ownerDefaultKind(i) ==
  getFields(desugar(input.S.owners[input.locator].ty)[2])[i].init

\* The destination fields whose mapping entry is v, in field order.
RECURSIVE fieldsMappedTo(_, _, _)
fieldsMappedTo(mapping, v, i) ==
  IF i > Len(getFields(input.toType)) THEN <<>>
  ELSE (IF mapping[i] = v THEN <<i>> ELSE <<>>) \o fieldsMappedTo(mapping, v, i + 1)

\* C18: each destination field whose source is DefaultInitialize becomes
\* CallerDefaultInitialize with one magic literal of its kind appended when
\* the owner's default kind is File, Line or Column, and stays
\* DefaultInitialize with nothing appended when the kind is Normal; the
\* caller default arguments are those of the CallerDefaultInitialize entries
\* in destination-field order and the owner is the function resolved from
\* the locator.
C18_CallerDefaultsMatchTheMapping ==
  tupleCoerced =>
    LET mapping == result.x.mapping
        defaults == result.x.callerDefaultArgs
        callers == fieldsMappedTo(mapping, CallerDefaultInitialize, 1)
    IN
    /\ \A i \in 1..Len(getFields(input.toType)) :
         /\ shuffleSources[i] = DefaultInitialize =>
              /\ ownerDefaultKind(i) \in {"File", "Line", "Column"}
                   => mapping[i] = CallerDefaultInitialize
              /\ ownerDefaultKind(i) = "Normal" => mapping[i] = DefaultInitialize
              /\ result.x.owner = input.S.owners[input.locator]
         /\ shuffleSources[i] # DefaultInitialize => mapping[i] = shuffleSources[i]
    /\ Len(defaults) = Len(callers)
    /\ \A k \in 1..Len(callers) :
         /\ defaults[k].k = "MagicIdentifierLiteralExpr"
         /\ defaults[k].x = ownerDefaultKind(callers[k])
         /\ isEqual(defaults[k].ty, getFields(input.toType)[callers[k]].ty)

\* A call f(1) of f(_, file: = __FILE__, s: = "", column: = __COLUMN__): two
\* caller defaults in field order around a callee default.
C18_Witness ==
  /\ tupleCoerced
  /\ result.x.mapping = <<0, CallerDefaultInitialize, DefaultInitialize,
                          CallerDefaultInitialize>>
  /\ Len(result.x.callerDefaultArgs) = 2
  /\ result.x.callerDefaultArgs[1].x = "File"
  /\ result.x.callerDefaultArgs[2].x = "Column"

---------------------------------------------------------------------------
(* C19: coerceObjectArgumentToType.                                        *)

\* The object type of the type asked for and the lvalue type built from it.
objectContainerType == getRValueType(input.toType)
objectDestType == LValue(objectContainerType, "member")
passedByValue ==
  hasReferenceSemantics(objectContainerType) \/ is(objectContainerType, "meta")

\* The ordinary coercion of the input expression to the object type.
coercedToContainer ==
  recurse("coerceToType", <<input.S, input.expr, objectContainerType, input.locator,
                            MaxCoerceDepth>>)

\* C19: for an object type with reference semantics or a metatype the result
\* is the ordinary coercion to the object type; otherwise the result has the
\* member-access lvalue type of the object type and is the expression itself
\* when it has that type already, a requalify node when it is an lvalue of
\* the same object type, a materialize node around the coerced expression
\* when it is an lvalue of another object type, and a materialize node
\* around the expression when it is not an lvalue.
C19_ObjectArgumentIsPassedAsLValue ==
  pc = "coercedObject" =>
    LET fromType == input.expr.ty IN
    IF passedByValue THEN result = coercedToContainer
    ELSE IF getCanonicalType(fromType) = getCanonicalType(objectDestType)
      THEN result = input.expr
    ELSE IF is(fromType, "lv")
              /\ getCanonicalType(desugar(fromType)[2])
                   = getCanonicalType(objectContainerType)
      THEN /\ result.k = "RequalifyExpr"
           /\ result.sub = <<input.expr>>
           /\ result.ty = objectDestType
    ELSE IF is(fromType, "lv")
      THEN \/ Stopped(coercedToContainer) /\ result = coercedToContainer
           \/ /\ ~Stopped(coercedToContainer)
              /\ result.k = "MaterializeExpr"
              /\ result.sub = <<coercedToContainer>>
              /\ result.ty = objectDestType
    ELSE /\ result.k = "MaterializeExpr"
         /\ result.sub = <<input.expr>>
         /\ result.ty = objectDestType

\* An lvalue of another object type: the loaded and converted value is
\* materialized into a member-access lvalue.
C19_Witness ==
  /\ pc = "coercedObject"
  /\ ~passedByValue
  /\ is(input.expr.ty, "lv")
  /\ result.k = "MaterializeExpr"
  /\ IsExpr(result.sub[1])
  /\ result.sub[1] # input.expr
  /\ result.sub[1] = coercedToContainer

---------------------------------------------------------------------------
(* Specification SpecConstruct: finishApply on a call T(x) or f(x) of the   *)
(* program, under the overload choice the solver recorded for the           *)
(* constructor.                                                             *)

\* A constructor init<U>(U) of toTy, and its type as the solver opened it.
GenericConstructorDecl(toTy) ==
  Decl("init", "ctor", toTy, FALSE, FALSE,
       Function(MetaType(toTy),
                PolymorphicFunction(<<"U">>, Archetype("U"), toTy), "plain"),
       2, NoType, NoType)
OpenedGenericConstructor(toTy) == Function(TypeVar(1, "U"), toTy, "plain")

\* A constructor init(fromTy) of the generic type toTy<V>, with what the base
\* conversion makes of its type.
ConstructorOfGenericDecl(fromTy, toTy) ==
  Decl("init", "ctor", toTy, TRUE, FALSE,
       Function(MetaType(toTy), Function(fromTy, toTy, "plain"), "plain"),
       2, Function(MetaType(toTy), Function(fromTy, toTy, "plain"), "plain"), toTy)

ConstructedTypes ==
  {IntTy, StrTy, ClassB, Optional(IntTy), NameAlias("MyInt", IntTy),
   Tuple(<<Unnamed(IntTy), Unnamed(StrTy)>>)}

ConstructorArguments ==
  {Leaf(t, 3) : t \in {IntTy, StrTy, ClassD, LValue(IntTy, "default"),
                       Tuple(<<Unnamed(IntTy), Unnamed(StrTy)>>)}}
  \cup {TupleOf(<<Unnamed(IntTy), Unnamed(StrTy)>>, 3)}

\* The callees: the type T, or a function value.
Callees ==
  {Orig("MetatypeExpr", MetaType(t), <<>>, 2, <<>>) : t \in ConstructedTypes}
  \cup {Leaf(Function(IntTy, StrTy, "plain"), 2),
        Leaf(LValue(Function(IntTy, StrTy, "plain"), "default"), 2)}

\* What the solver may have recorded at the constructor locator of T(x).
ConstructorChoices(fn, arg) ==
  LET argTy == getRValueType(arg.ty)
      toTy == desugar(fn.ty)[2]
  IN
  IF ~is(fn.ty, "meta") \/ is(toTy, "tuple") THEN {<<>>}
  ELSE {<<>>,
        <<Choice("IdentityFunction", NoDecl, NoType)>>,
        <<Choice("Decl", ConstructorDecl(argTy, toTy), Function(argTy, toTy, "plain"))>>,
        <<Choice("Decl", ConstructorOfGenericDecl(argTy, toTy),
                 Function(argTy, toTy, "plain"))>>,
        <<Choice("Decl", GenericConstructorDecl(toTy), OpenedGenericConstructor(toTy))>>}

InitConstruct ==
  /\ pc = "construct"
  /\ \E fn \in Callees, arg \in ConstructorArguments,
        asserts \in BOOLEAN, checkSubstitutions \in BOOLEAN :
       \E choice \in ConstructorChoices(fn, arg) :
         LET apply == Orig("CallExpr", NoType, <<fn, arg>>, 1, <<>>)
             locator == Locator(apply.id, <<>>)
             ctorLocator == withPathElement(locator, <<"ConstructorMember">>)
         IN input = [expr |-> apply, locator |-> locator,
                     openedType |-> NoType,
                     S |-> [bind |-> 1 :> getRValueType(arg.ty), restr |-> EmptyMap,
                            ovl |-> IF choice = <<>> THEN EmptyMap
                                    ELSE ctorLocator :> choice[1],
                            owners |-> EmptyMap,
                            env |-> Env(asserts, TRUE, checkSubstitutions)]]
  /\ result = Null
  /\ ValueTypeMemberApplications = EmptyMap
  /\ LeftSideOfAssignment = 0
  /\ dc = "top"
  /\ diags = <<>>
  /\ log = <<>>

\* The call finishApply(apply, openedType, locator).
FinishApply ==
  /\ pc = "construct"
  /\ result' = recurse("finishApply", <<input.S, input.expr, input.openedType,
                                        input.locator, MaxCoerceDepth>>)
  /\ pc' = "constructed"
  /\ UNCHANGED <<input, ValueTypeMemberApplications, LeftSideOfAssignment, dc,
                 diags, log>>

NextConstruct == FinishApply

SpecConstruct == InitConstruct /\ [][NextConstruct]_vars

\* The callee of the call is a type and a constructor was selected for it.
constructorSelected ==
  LET ctorLocator == withPathElement(input.locator, <<"ConstructorMember">>) IN
  /\ is(input.expr.sub[1].ty, "meta")
  /\ hasOverloadChoice(input.S, ctorLocator)
  /\ getOverloadChoice(input.S, ctorLocator).kind # "IdentityFunction"

\* The constructor reference finishApply puts in the place of the callee.
constructorReference ==
  LET selected ==
        getOverloadChoice(input.S,
                          withPathElement(input.locator, <<"ConstructorMember">>))
  IN recurse("buildMemberRef", <<input.S, input.expr.sub[1], selected.decl,
                                 selected.opened, input.locator, MaxCoerceDepth - 1>>)

\* C20: finishApply returns; when the callee is a type and a constructor
\* other than the identity function was selected, the callee is replaced by a
\* non-null constructor reference of function type and the one re-entry of
\* finishApply takes the function branch, whose result is returned.
C20_ConstructorCallReentersOnce ==
  pc = "constructed" =>
    /\ result.k # "Diverge"
    /\ constructorSelected =>
         /\ IsExpr(constructorReference)
         /\ is(constructorReference.ty, "fn")
         /\ result =
              recurse("finishApply",
                      <<input.S,
                        [input.expr EXCEPT !.sub = <<constructorReference, @[2]>>],
                        input.openedType, input.locator, MaxCoerceDepth - 1>>)

---------------------------------------------------------------------------
(* Specification SpecConvert: Solution::convertToLogicValue and            *)
(* Solution::convertToArrayBound on one expression of the program.         *)

\* The program under conversion: Bool and Int carry the builtin members,
\* Flag and Len only the general ones (returning Bool and Int), Str conforms
\* to neither protocol; Bit is an alias of the 1-bit builtin integer.
FlagTy == Nominal("Flag")
LenTy == Nominal("Len")
NoArgs(res) == Function(EmptyTuple, res, "plain")
ConvertedTypes ==
  {BuiltinInteger(1), BuiltinInteger(64), LValue(BuiltinInteger(1), "default"),
   LValue(BuiltinInteger(64), "default"), NameAlias("Bit", BuiltinInteger(1)),
   BoolTy, LValue(BoolTy, "default"), IntTy, LValue(IntTy, "default"), FlagTy,
   LenTy, StrTy}

\* The ways the library can be broken.
LibraryShapes ==
  {"ok", "noRequirement", "invalidRequirement", "wrongBuiltinResult", "twoBuiltins",
   "variableBuiltin", "generalWithoutBuiltin"}

BuiltinMembers(shape, name, container, res, wrongRes) ==
  LET good == Method(name, container, NoArgs(res), 2)
      wrong == Method(name, container, NoArgs(wrongRes), 2)
  IN CASE shape = "wrongBuiltinResult" -> <<wrong>>
       [] shape = "twoBuiltins" -> <<good, wrong>>
       [] shape = "variableBuiltin" ->
            <<Decl(name, "var", container, FALSE, TRUE, res, 0, NoType, NoType)>>
       [] OTHER -> <<good>>

ConvertMembers(shape) ==
  <<BoolTy, "_getBuiltinLogicValue">>
     :> BuiltinMembers(shape, "_getBuiltinLogicValue", BoolTy, BuiltinInteger(1),
                       BuiltinInteger(64))
  @@ <<IntTy, "_getBuiltinArrayBoundValue">>
     :> BuiltinMembers(shape, "_getBuiltinArrayBoundValue", IntTy, BuiltinInteger(64),
                       StrTy)

ConvertProtocols(shape) ==
  LET member(name, proto) ==
        [decl |-> Method(name, Existential(proto), NoArgs(NoType), 2),
         invalid |-> shape = "invalidRequirement"]
  IN IF shape = "noRequirement"
     THEN "LogicValue" :> <<>> @@ "ArrayBound" :> <<>>
     ELSE "LogicValue" :> <<member("getLogicValue", "LogicValue")>>
          @@ "ArrayBound" :> <<member("getArrayBoundValue", "ArrayBound")>>

ConvertWitnesses(shape) ==
  LET logic == IF shape = "generalWithoutBuiltin" THEN StrTy ELSE BoolTy
      bound == IF shape = "generalWithoutBuiltin" THEN StrTy ELSE IntTy
  IN <<FlagTy, "LogicValue", "getLogicValue">>
        :> Method("getLogicValue", FlagTy, NoArgs(logic), 2)
     @@ <<BoolTy, "LogicValue", "getLogicValue">>
        :> Method("getLogicValue", BoolTy, NoArgs(BoolTy), 2)
     @@ <<LenTy, "ArrayBound", "getArrayBoundValue">>
        :> Method("getArrayBoundValue", LenTy, NoArgs(bound), 2)
     @@ <<IntTy, "ArrayBound", "getArrayBoundValue">>
        :> Method("getArrayBoundValue", IntTy, NoArgs(IntTy), 2)

ConvertConformances ==
  {<<FlagTy, "LogicValue">>, <<BoolTy, "LogicValue">>, <<LenTy, "ArrayBound">>,
   <<IntTy, "ArrayBound">>}

ConvertEnv(asserts, shape) ==
  [asserts |-> asserts, injectionFn |-> TRUE, checkSubstitutions |-> TRUE,
   conformances |-> ConvertConformances, protocols |-> ConvertProtocols(shape),
   witnesses |-> ConvertWitnesses(shape), members |-> ConvertMembers(shape)]

InitConvert ==
  /\ pc = "convert"
  /\ \E t \in ConvertedTypes, shape \in LibraryShapes, asserts \in BOOLEAN :
       LET expr == Leaf(t, 1) IN
       input = [expr |-> expr, locator |-> Locator(expr.id, <<>>),
                S |-> [bind |-> EmptyMap, restr |-> EmptyMap, ovl |-> EmptyMap,
                       owners |-> EmptyMap, env |-> ConvertEnv(asserts, shape)]]
  /\ result = Null
  /\ ValueTypeMemberApplications = EmptyMap
  /\ LeftSideOfAssignment = 0
  /\ dc = "top"
  /\ diags = <<>>
  /\ log = <<>>

\* A conversion returns: its expression, its diagnostics and its lookups.
conversionReturns(c) ==
  /\ result' = c.res
  /\ diags' = c.dg
  /\ log' = c.lg

\* The call solution.convertToLogicValue(expr, locator).
ConvertToLogicValue ==
  /\ pc = "convert"
  /\ conversionReturns(recurse("convertToLogicValue", <<input.S, input.expr, input.locator,
                                        MaxCoerceDepth>>))
  /\ pc' = "convertedLogicValue"
  /\ UNCHANGED <<input, ValueTypeMemberApplications, LeftSideOfAssignment, dc>>

\* The call solution.convertToArrayBound(expr, locator).
ConvertToArrayBound ==
  /\ pc = "convert"
  /\ conversionReturns(recurse("convertToArrayBound", <<input.S, input.expr, input.locator,
                                        MaxCoerceDepth>>))
  /\ pc' = "convertedArrayBound"
  /\ UNCHANGED <<input, ValueTypeMemberApplications, LeftSideOfAssignment, dc>>

NextConvert == ConvertToLogicValue \/ ConvertToArrayBound

SpecConvert == InitConvert /\ [][NextConvert]_vars

\* The shortcut: nothing was looked up, nothing diagnosed, and the result is
\* the input coerced to an rvalue.
tookShortcut ==
  /\ log = <<>>
  /\ diags = <<>>
  /\ result = coerceToRValue(input.expr)

\* The conversion went through the protocol: it began with the lookup of the
\* builtin member in the rvalue type of the input, and an expression it
\* returns is a call.
wentThroughProtocol(builtinName) ==
  /\ Len(log) >= 1
  /\ log[1] = <<"lookupMember", getCanonicalType(getRValueType(input.expr.ty)),
                builtinName>>
  /\ IsExpr(result) => result.k = "CallExpr" /\ result # coerceToRValue(input.expr)

\* C11, as stated: convertToLogicValue on an expression whose rvalue type is
\* the 1-bit builtin integer, and convertToArrayBound on an expression whose
\* type is any builtin integer, take the shortcut.
C11_BothConversionsTakeTheShortcut ==
  /\ pc = "convertedLogicValue"
       /\ isBuiltinIntegerType(getRValueType(input.expr.ty), 1) => tookShortcut
  /\ pc = "convertedArrayBound" /\ is(getRValueType(input.expr.ty), "bint")
       => tookShortcut

\* What the code does: only convertToLogicValue has the shortcut, for an
\* rvalue type that is the 1-bit builtin integer; convertToArrayBound goes
\* through the protocol for every input, a builtin integer included, and
\* never returns the bare input.
onlyLogicValueTakesTheShortcut ==
  /\ pc = "convertedLogicValue"
       /\ isBuiltinIntegerType(getRValueType(input.expr.ty), 1) => tookShortcut
  /\ pc = "convertedArrayBound" => wentThroughProtocol("_getBuiltinArrayBoundValue")

\* convertToArrayBound stops on every expression of builtin integer type.
arrayBoundOfBuiltinIntegerStops ==
  pc = "convertedArrayBound" /\ is(getRValueType(input.expr.ty), "bint")
    => result = Crash

\* An lvalue of the 1-bit builtin integer was converted to a logic value: the
\* result is its load.
logicValueShortcutTaken ==
  /\ pc = "convertedLogicValue"
  /\ input.expr.ty = LValue(BuiltinInteger(1), "default")
  /\ result.k = "LoadExpr"
  /\ result.ty = BuiltinInteger(1)
  /\ result.sub = <<input.expr>>

---------------------------------------------------------------------------
(* Specification SpecScore: Solution::getFixedScore on a solution with up   *)
(* to MaxChoices overload choices and MaxBindings type-variable bindings.   *)

MaxChoices == 2
MaxBindings == 2

\* A declaration as the score sees it: its attributes.
AttributedDecl(name, attrs) == [name |-> name, attrs |-> attrs]
isConversion(decl) == "conversion" \in decl.attrs

\* TypeBase::getAnyNominal: the nominal declaration of the canonical type,
\* "" (null) for a type that has none.
getAnyNominal(t) ==
  LET c == getCanonicalType(t) IN
  CASE Kind(c) = "nom" -> c[2]
    [] Kind(c) = "opt" -> "Optional"
    [] Kind(c) = "slice" -> "Slice"
    [] OTHER -> ""

\* TypeChecker::getLiteralProtocol: the protocol of a literal expression,
\* NoProtocol for any other expression.
getLiteralProtocol(expr) ==
  CASE expr.k = "IntegerLiteralExpr" -> "IntegerLiteralConvertible"
    [] expr.k = "FloatLiteralExpr" -> "FloatLiteralConvertible"
    [] expr.k = "CharacterLiteralExpr" -> "CharacterLiteralConvertible"
    [] expr.k = "StringLiteralExpr" -> "StringLiteralConvertible"
    [] expr.k = "ArrayExpr" -> "ArrayLiteralConvertible"
    [] OTHER -> NoProtocol

\* A loop over overloadChoices in which every choice that has a declaration
\* is considered.
RECURSIVE scoreDeclChoices(_, _, _)
scoreDeclChoices(choices, i, score) ==
  IF i > Len(choices) THEN score
  ELSE IF choices[i].kind \notin {"Decl", "DeclViaDynamic"}
    THEN scoreDeclChoices(choices, i + 1, score)
  ELSE IF isConversion(choices[i].decl)
    THEN scoreDeclChoices(choices, i + 1, score - 2)
  ELSE scoreDeclChoices(choices, i + 1, score)

\* The loop over overloadChoices, from the i-th choice on.
RECURSIVE scoreChoices(_, _, _)
scoreChoices(choices, i, score) ==
  IF i > Len(choices) THEN score
  ELSE IF choices[i].kind # "Decl" THEN scoreChoices(choices, i + 1, score)
  ELSE IF isConversion(choices[i].decl) THEN scoreChoices(choices, i + 1, score - 2)
  ELSE scoreChoices(choices, i + 1, score)

\* One binding of the loop over typeBindings: does it add 1?  A binding is
\* [locator, type]; a locator is <<>> (null) or <<[anchor, path]>>.
bindingMatchesDefault(S, binding) ==
  LET locator == binding.locator[1]
      literalProtocol == getLiteralProtocol(locator.anchor)
      defaultType == getDefaultType(S, literalProtocol)
  IN
  IF binding.locator = <<>> THEN FALSE
  ELSE IF IsNull(locator.anchor) \/ locator.path # <<>> THEN FALSE
  ELSE IF literalProtocol = NoProtocol THEN FALSE
  ELSE IF defaultType = NoType THEN FALSE
  ELSE getAnyNominal(defaultType) = getAnyNominal(binding.type)

RECURSIVE scoreBindings(_, _, _, _)
scoreBindings(S, bindings, i, score) ==
  IF i > Len(bindings) THEN score
  ELSE IF bindingMatchesDefault(S, bindings[i])
    THEN scoreBindings(S, bindings, i + 1, score + 1)
  ELSE scoreBindings(S, bindings, i + 1, score)

\* Solution::getFixedScore: the score and the solution with the score saved.
getFixedScore(S) ==
  LET score == scoreBindings(S, S.typeBindings, 1,
                             scoreChoices(S.overloadChoices, 1, 0))
  IN IF S.fixedScore # <<>> THEN [score |-> S.fixedScore[1], S |-> S]
     ELSE [score |-> score, S |-> [S EXCEPT !.fixedScore = <<score>>]]

\* The solutions scored: conversions and other declarations chosen normally,
\* a conversion chosen through dynamic lookup, a tuple index; bindings of the
\* type variables of literals, of other expressions, of members of literals
\* and of type variables without locator or anchor.
ScoredChoices ==
  {[kind |-> "Decl", decl |-> AttributedDecl(n, a)] :
     <<n, a>> \in {<<"__conversion", {"conversion"}>>, <<"f", {}>>,
                   <<"g", {"conversion", "infix"}>>}}
  \cup {[kind |-> "DeclViaDynamic",
         decl |-> AttributedDecl("__conversion", {"conversion"})],
        [kind |-> "TupleIndex", decl |-> AttributedDecl("", {})]}

ScoredAnchors ==
  {Orig("IntegerLiteralExpr", TV1, <<>>, 1, <<>>),
   Orig("ArrayExpr", TV1, <<>>, 1, <<>>), Leaf(IntTy, 1), Null}

ScoredLocators ==
  {<<>>}
  \cup {<<[anchor |-> a, path |-> p]>> :
          a \in ScoredAnchors, p \in {<<>>, <<<<"MemberRefBase">>>>}}

ScoredBindings ==
  {[locator |-> l, type |-> t] :
     l \in ScoredLocators,
     t \in {IntTy, NameAlias("MyInt", IntTy), ArraySlice(StrTy),
            Tuple(<<Unnamed(IntTy), Unnamed(IntTy)>>)}}

\* The bindings of the literals themselves.
LiteralItselfBindings ==
  {b \in ScoredBindings :
     /\ b.locator # <<>>
     /\ b.locator[1].path = <<>>
     /\ <<b.locator[1].anchor.k, b.type>> \in
          {<<"IntegerLiteralExpr", IntTy>>, <<"IntegerLiteralExpr", ArraySlice(StrTy)>>,
           <<"ArrayExpr", ArraySlice(StrTy)>>}}

ScoredDefaults ==
  {EmptyMap, LiteralDefaults @@ ("ArrayLiteralConvertible" :> ArraySlice(IntTy))}

SeqsUpTo(set, n) == UNION {[1..m -> set] : m \in 0..n}

\* Up to MaxBindings bindings: a first one of any kind, then bindings of
\* literals.
ScoredBindingSeqs ==
  {<<>>}
  \cup {<<b>> \o rest : b \in ScoredBindings,
                        rest \in SeqsUpTo(LiteralItselfBindings, MaxBindings - 1)}

InitScore ==
  /\ pc = "score"
  /\ \E choices \in SeqsUpTo(ScoredChoices, MaxChoices),
        bindings \in ScoredBindingSeqs,
        defaults \in ScoredDefaults, cached \in {<<>>, <<7>>} :
       input = [S |-> [overloadChoices |-> choices, typeBindings |-> bindings,
                       fixedScore |-> cached,
                       env |-> [defaultTypes |-> defaults]]]
  /\ result = Null
  /\ ValueTypeMemberApplications = EmptyMap
  /\ LeftSideOfAssignment = 0
  /\ dc = "top"
  /\ diags = <<>>
  /\ log = <<>>

\* A call solution.getFixedScore(); log keeps the solution it was called on.
GetFixedScore ==
  /\ pc \in {"score", "scored"}
  /\ Len(log) < 2
  /\ LET r == getFixedScore(input.S) IN
       /\ result' = r.score
       /\ input' = [input EXCEPT !.S = r.S]
  /\ log' = Append(log, input.S)
  /\ pc' = "scored"
  /\ UNCHANGED <<ValueTypeMemberApplications, LeftSideOfAssignment, dc, diags>>

NextScore == GetFixedScore

SpecScore == InitScore /\ [][NextScore]_vars

\* The solution of the first call, and whether it had no cached score.
scoredSolution == log[1]
scoredUncached == pc = "scored" /\ Len(log) = 1 /\ scoredSolution.fixedScore = <<>>

\* The number of elements of a sequence that satisfy a test.
countOf(seq, i, Test(_)) == Cardinality({j \in i..Len(seq) : Test(seq[j])})

conversionChosen(choice) ==
  choice.kind \in {"Decl", "DeclViaDynamic"} /\ isConversion(choice.decl)
conversionChosenNormally(choice) ==
  choice.kind = "Decl" /\ isConversion(choice.decl)

\* The binding of a type variable anchored at a literal, to a type whose
\* nominal declaration is that of the default type of the literal's protocol.
literalBoundToDefault(binding) ==
  /\ binding.locator # <<>>
  /\ ~IsNull(binding.locator[1].anchor)
  /\ getLiteralProtocol(binding.locator[1].anchor) # NoProtocol
  /\ getDefaultType(scoredSolution,
                    getLiteralProtocol(binding.locator[1].anchor)) # NoType
  /\ getAnyNominal(getDefaultType(scoredSolution,
                                  getLiteralProtocol(binding.locator[1].anchor)))
       = getAnyNominal(binding.type)
literalItselfBoundToDefault(binding) ==
  literalBoundToDefault(binding) /\ binding.locator[1].path = <<>>

\* C12, as stated: without a cached score, the score is 0, minus 2 for each
\* chosen declaration, normal or via dynamic lookup, that bears the
\* conversion attribute, plus 1 for each binding anchored at a literal and
\* bound to the nominal of the literal's default type.
C12_ScoreCountsEveryConversionDeclaration ==
  scoredUncached =>
    result = 0 - 2 * countOf(scoredSolution.overloadChoices, 1, conversionChosen)
               + countOf(scoredSolution.typeBindings, 1, literalBoundToDefault)

\* C12, amended: without a cached score, the score is 0, minus 2 for each
\* choice of kind Decl whose declaration bears the conversion attribute (a
\* choice via dynamic lookup does not count), plus 1 for each binding whose
\* type variable stands for the literal itself (locator with the literal as
\* anchor and an empty path) and is bound to the nominal of the default type
\* of the literal's protocol; the score is then saved in the solution.
C12_ScoreCountsNormalConversionsAndLiterals ==
  scoredUncached =>
    /\ result = 0 - 2 * countOf(scoredSolution.overloadChoices, 1,
                                conversionChosenNormally)
                  + countOf(scoredSolution.typeBindings, 1,
                            literalItselfBoundToDefault)
    /\ input.S.fixedScore = <<result>>

\* A solution with a conversion chosen normally, one chosen via dynamic
\* lookup and two literals bound to their default types scores 0.
C12_Witness ==
  /\ scoredUncached
  /\ Len(scoredSolution.overloadChoices) = 2
  /\ scoredSolution.overloadChoices[1].kind = "Decl"
  /\ scoredSolution.overloadChoices[2].kind = "DeclViaDynamic"
  /\ \A i \in 1..2 : isConversion(scoredSolution.overloadChoices[i].decl)
  /\ Len(scoredSolution.typeBindings) = 2
  /\ \A i \in 1..2 : literalItselfBoundToDefault(scoredSolution.typeBindings[i])
  /\ result = 0

---------------------------------------------------------------------------
(* Specification SpecSubscript: ExprRewriter::buildSubscript on a base and  *)
(* an index of the program, under the subscript the solver selected.        *)

\* The subscripts of the program: subscript(indexTy) -> resultTy declared in
\* container; a subscript of a generic type comes with the container as the
\* base conversion substitutes it.
SubscriptDecl(container, generic, indexTy, resultTy) ==
  Decl("subscript", "subscript", container, generic, TRUE,
       Function(indexTy, resultTy, "plain"), 0,
       Function(indexTy, resultTy, "plain"), container)

SubscriptBases ==
  {Leaf(t, 2) : t \in {IntTy, LValue(IntTy, "default"), LValue(IntTy, "member"),
                       ClassB, LValue(ClassD, "default"), ArchT,
                       LValue(ArchT, "default"), ProtoP, LValue(ProtoP, "default"),
                       LValue(ProtoP, "member")}}

SubscriptIndices ==
  {Leaf(t, 3) : t \in {IntTy, LValue(IntTy, "default"), StrTy}}
  \cup {TupleOf(<<Unnamed(IntTy), Unnamed(StrTy)>>, 3)}

SubscriptIndexTypes == {IntTy, StrTy, Tuple(<<Unnamed(IntTy), Unnamed(StrTy)>>)}
SubscriptResultTypes == {StrTy, ClassB, TypeVar(1, "")}

\* The containers a subscript found in a base may be declared in: the type
\* of the base, a superclass, or the protocol P.
SubscriptContainers(base) ==
  LET baseTy == getRValueType(base.ty) IN
  {baseTy, ProtoP} \cup (IF baseTy = ClassD THEN {ClassB} ELSE {})

InitSubscript ==
  /\ pc = "subscript"
  /\ \E base \in SubscriptBases, index \in SubscriptIndices,
        kind \in {"Decl", "DeclViaDynamic"}, generic \in BOOLEAN,
        indexTy \in SubscriptIndexTypes, resultTy \in SubscriptResultTypes :
       \E container \in SubscriptContainers(base) :
         LET expr == Orig("UnresolvedSubscriptExpr", NoType, <<base, index>>, 1, <<>>)
             locator == Locator(expr.id, <<>>)
             decl == SubscriptDecl(container, generic, indexTy, StrTy)
         IN input = [expr |-> expr, locator |-> locator,
                     S |-> [bind |-> 1 :> StrTy, restr |-> EmptyMap,
                            ovl |-> withPathElement(locator, <<"SubscriptMember">>)
                                      :> Choice(kind, decl,
                                                Function(indexTy, resultTy, "plain")),
                            owners |-> EmptyMap, env |-> Env(TRUE, TRUE, TRUE)]]
  /\ result = Null
  /\ ValueTypeMemberApplications = EmptyMap
  /\ LeftSideOfAssignment = 0
  /\ dc = "top"
  /\ diags = <<>>
  /\ log = <<>>

\* The call buildSubscript(base, index, locator).
BuildSubscript ==
  /\ pc = "subscript"
  /\ result' = recurse("buildSubscript",
                       <<input.S, input.expr.sub[1], input.expr.sub[2],
                         input.locator, MaxCoerceDepth>>)
  /\ pc' = "subscripted"
  /\ UNCHANGED <<input, ValueTypeMemberApplications, LeftSideOfAssignment, dc,
                 diags, log>>

NextSubscript == BuildSubscript

SpecSubscript == InitSubscript /\ [][NextSubscript]_vars

\* The subscript selected, the type of the base and the rvalue result type.
subscriptChoice ==
  getOverloadChoice(input.S, withPathElement(input.locator, <<"SubscriptMember">>))
subscriptBaseType == getRValueType(input.expr.sub[1].ty)
subscriptResultType ==
  getRValueType(desugar(simplifyType(input.S, subscriptChoice.opened))[3])
subscriptBuilt == pc = "subscripted" /\ IsExpr(result)
viaDynamic == subscriptChoice.kind = "DeclViaDynamic"
archetypeInProtocol ==
  is(subscriptBaseType, "arch") /\ is(subscriptChoice.decl.container, "exist")

\* C13, as stated: the subscript expression has the rvalue result type when
\* the choice is DeclViaDynamic, when the container is a protocol and the
\* base an archetype, and when the base is an existential; it has an lvalue
\* result type in every other case.
C13_ExistentialSubscriptIsAnRValue ==
  subscriptBuilt =>
    IF viaDynamic \/ archetypeInProtocol \/ is(subscriptBaseType, "exist")
    THEN result.ty = subscriptResultType
    ELSE result.ty = memberAccessLValue(subscriptResultType)

\* C13, amended: the subscript expression has the rvalue result type when
\* the choice is DeclViaDynamic (a dynamic subscript) and when the container
\* is a protocol and the base an archetype (an archetype subscript); in
\* every other case, the existential subscript included, its type is the
\* lvalue of the result type, qualified for member access.
C13_OnlyDynamicAndArchetypeSubscriptsAreRValues ==
  subscriptBuilt =>
    /\ IF viaDynamic \/ archetypeInProtocol
       THEN result.ty = subscriptResultType
       ELSE result.ty = memberAccessLValue(subscriptResultType)
    /\ result.k = "DynamicSubscriptExpr" <=> viaDynamic
    /\ result.k = "ArchetypeSubscriptExpr" <=> ~viaDynamic /\ archetypeInProtocol
    /\ result.k = "ExistentialSubscriptExpr" =>
         is(subscriptBaseType, "exist") /\ is(result.ty, "lv")

\* An existential subscript was built on a base of protocol type; its type
\* is the lvalue of the result type the type variable is bound to.
C13_Witness ==
  /\ subscriptBuilt
  /\ result.k = "ExistentialSubscriptExpr"
  /\ input.expr.sub[1].ty = ProtoP
  /\ subscriptChoice.opened[3] = TypeVar(1, "")
  /\ result.ty = LValue(StrTy, "member")

---------------------------------------------------------------------------
(* The declaration context during applySolution.                           *)

\* The context switches of the run, in order: the values Rewriter.dc took.
contextSwitches ==
  LET events == SelectSeq(log, LAMBDA e : e[1] = "dc") IN
  [i \in 1..Len(events) |-> events[i][2]]

\* The closures of the tree whose body the walker enters.
enteredClosures ==
  {n.id : n \in {m \in Nodes(input.expr) : m.k = "ClosureExpr" /\ m.x.paramsOk}}

\* The switches from the i-th on are scoped: each one either enters a
\* closure of the tree or puts back the context saved when the innermost
\* open closure was entered, and none stays open.  saved is the stack of
\* the contexts, the current one last.
RECURSIVE scopedFrom(_, _, _)
scopedFrom(switches, i, saved) ==
  IF i > Len(switches) THEN Len(saved) = 1
  ELSE IF Len(saved) >= 2 /\ switches[i] = saved[Len(saved) - 1]
    THEN scopedFrom(switches, i + 1, SubSeq(saved, 1, Len(saved) - 1))
  ELSE /\ switches[i] \in enteredClosures
       /\ scopedFrom(switches, i + 1, Append(saved, switches[i]))

\* The deepest nesting of open closures during the run.
RECURSIVE deepestFrom(_, _, _)
deepestFrom(switches, i, saved) ==
  IF i > Len(switches) THEN 0
  ELSE IF Len(saved) >= 2 /\ switches[i] = saved[Len(saved) - 1]
    THEN deepestFrom(switches, i + 1, SubSeq(saved, 1, Len(saved) - 1))
  ELSE LET rest == deepestFrom(switches, i + 1, Append(saved, switches[i])) IN
       IF rest > Len(saved) THEN rest ELSE Len(saved)

\* C14: when the walk of applySolution returns, with an expression or with
\* null, the declaration context is the one the rewriter was created with,
\* and it was switched only to closures of the tree, each switch put back in
\* nested order before the walk left the closure.
C14_ContextIsScopedToClosureBodies ==
  pc \in {"walked", "done"} =>
    /\ dc = "top"
    /\ scopedFrom(contextSwitches, 1, <<"top">>)

\* A walk that failed in the body of the innermost of three nested closures
\* came back with null and the context restored.
C14_Witness ==
  /\ pc = "walked"
  /\ IsNull(result)
  /\ deepestFrom(contextSwitches, 1, <<"top">>) = 3
  /\ Len(contextSwitches) = 6
  /\ dc = "top"

---------------------------------------------------------------------------
(* Specification SpecCast: the rewriter's visit of a conditional checked    *)
(* cast x as? T of the program.  The node is                                *)
(*   [k |-> "ConditionalCheckedCastExpr", sub |-> <<x>>,                    *)
(*    x |-> [castType, castKind, implicit, subChecks, classified]]          *)
(* where subChecks and classified are the answers of the type checker for   *)
(* the subexpression and for the cast.                                      *)

\* The casts of the program.  Optional<P> is declared to conform to P.
CastSources ==
  {Leaf(t, 2) : t \in {ClassB, ClassD, LValue(ClassD, "default"), ProtoP,
                       LValue(ProtoP, "default"), IntTy, NameAlias("MyInt", IntTy),
                       ArchT, Optional(ProtoP), Optional(IntTy)}}
  \cup {TupleOf(<<Unnamed(IntTy), Unnamed(IntTy)>>, 2)}
CastTypes == {ClassB, ClassD, IntTy, ProtoP, ArchT, Optional(IntTy), VariadicInts}

CastEnv(asserts, injectionFn) ==
  [asserts |-> asserts, injectionFn |-> injectionFn, checkSubstitutions |-> TRUE,
   conformances |-> Conformances \cup {<<Optional(ProtoP), "P">>}]

CastSolution(asserts, injectionFn) ==
  [bind |-> EmptyMap, restr |-> EmptyMap, ovl |-> EmptyMap, owners |-> EmptyMap,
   env |-> CastEnv(asserts, injectionFn)]

\* The subexpression converts to the cast type: the coercion returns.
castCoercible(S, sub, toType) ==
  ~Stopped(recurse("coerceToType",
                   <<S, coerceToRValue(sub), toType, Locator(<<"o", 1>>, <<>>),
                     MaxCoerceDepth>>))

\* The type checker classifies a cast as InvalidCoercible only when the
\* subexpression converts to the cast type.
InitCast ==
  /\ pc = "cast"
  /\ \E sub \in CastSources, castType \in CastTypes, classified \in CheckedCastKinds,
        implicit \in BOOLEAN, subChecks \in BOOLEAN, asserts \in BOOLEAN,
        injectionFn \in BOOLEAN :
       /\ classified = "InvalidCoercible" =>
            castCoercible(CastSolution(asserts, injectionFn), sub, castType)
       /\ input = [expr |-> Orig("ConditionalCheckedCastExpr", TV1, <<sub>>, 1,
                                 [castType |-> castType, castKind |-> "Unresolved",
                                  implicit |-> implicit, subChecks |-> subChecks,
                                  classified |-> classified]),
                   S |-> CastSolution(asserts, injectionFn)]
  /\ result = Null
  /\ ValueTypeMemberApplications = EmptyMap
  /\ LeftSideOfAssignment = 0
  /\ dc = "top"
  /\ diags = <<>>
  /\ log = <<>>

\* The visit returns: its expression and the diagnostics of the rewriter.
visitReturns(v) ==
  /\ result' = v.res
  /\ diags' = v.st.diags

\* Rewriter.visit(unchecked) for the conditional checked cast.
VisitConditionalCheckedCastExpr ==
  /\ pc = "cast"
  /\ visitReturns(recurse("visitConditionalCheckedCastExpr",
                          <<input.S, input.expr,
                            RewriterState(LeftSideOfAssignment,
                                          ValueTypeMemberApplications, diags, dc, log),
                            MaxCoerceDepth>>))
  /\ pc' = "casted"
  /\ UNCHANGED <<input, ValueTypeMemberApplications, LeftSideOfAssignment, dc, log>>

NextCast == VisitConditionalCheckedCastExpr

SpecCast == InitCast /\ [][NextCast]_vars

\* The cast type, the kind the cast was classified as, the subexpression as
\* an rvalue and its coercion to the cast type.
castTarget == input.expr.x.castType
castClassification ==
  IF input.expr.x.subChecks THEN input.expr.x.classified ELSE "Unresolved"
castOperand == coerceToRValue(input.expr.sub[1])
castCoercion ==
  recurse("coerceToType", <<input.S, castOperand, castTarget,
                            Locator(input.expr.id, <<>>), MaxCoerceDepth>>)
castRetained ==
  [input.expr EXCEPT !.ty = Optional(castTarget), !.sub[1] = castOperand,
                     !.x.castKind = castClassification]

\* C15, as stated: a non-null result has type Optional<T>; a cast of a valid
\* kind is the same node with that kind; a cast that is a trivial coercion
\* is an inject-into-optional around the coercion of the subexpression to T;
\* an unresolved cast is null.
C15_CoercibleCastIsAlwaysInjected ==
  pc = "casted" /\ ~Stopped(result) =>
    /\ IsExpr(result) => isEqual(result.ty, Optional(castTarget))
    /\ castClassification \in ValidCastKinds => result = castRetained
    /\ castClassification = "InvalidCoercible" =>
         result = InjectIntoOptionalExpr(castCoercion, Optional(castTarget))
    /\ castClassification = "Unresolved" => IsNull(result)

\* What the code does: a non-null result has type Optional<T>; a cast of a
\* valid kind is the same node with that kind; a cast that is a trivial
\* coercion is the subexpression itself when its type is already
\* Optional<T>, and otherwise an inject-into-optional of type Optional<T>
\* around whatever the coercion of the subexpression to T returned, null
\* included; an unresolved cast is null.
coercibleCastIsInjectedUnlessAlreadyOptional ==
  pc = "casted" /\ ~Stopped(result) =>
    /\ IsExpr(result) => isEqual(result.ty, Optional(castTarget))
    /\ castClassification \in ValidCastKinds => result = castRetained
    /\ castClassification = "InvalidCoercible" =>
         IF isEqual(Optional(castTarget), castOperand.ty)
         THEN result = castOperand
         ELSE result = InjectIntoOptionalExpr(castCoercion, Optional(castTarget))
    /\ castClassification = "Unresolved" => IsNull(result)

\* x as? P for x of type Optional<P>, classified as a trivial coercion: the
\* result is x.
optionalOperandReturned ==
  /\ pc = "casted"
  /\ castClassification = "InvalidCoercible"
  /\ input.expr.sub[1].ty = Optional(ProtoP)
  /\ castTarget = ProtoP
  /\ result = input.expr.sub[1]

---------------------------------------------------------------------------
(* Specification SpecMember: a member reference base.m of the program, as   *)
(* buildMemberRef builds it and as visitUnresolvedDotExpr rewrites it.      *)

\* A member m of a type: a method m(Int) -> Str or m(Int)(Int) -> Str,
\* static or not, a method whose only argument clause is self, an enum
\* element m(Int) or a constructor.  An enum element
\* and a constructor are not instance members.  With generic, the type is an
\* unspecialized generic type and the base conversion leaves the types as
\* they are.  natArgs counts the argument clauses, self included.
MemberOpened(kind, container, natArgs) ==
  IF kind # "func" THEN Function(IntTy, container, "plain")
  ELSE IF natArgs = 1 THEN StrTy
  ELSE IF natArgs = 2 THEN IntToStr ELSE Curried
MemberType(kind, container, instance, natArgs) ==
  Function(IF instance THEN selfInput(container) ELSE MetaType(container),
           MemberOpened(kind, container, natArgs), "plain")
MemberDecl(kind, container, generic, instance, natArgs) ==
  Decl("m", kind, container, generic, instance,
       MemberType(kind, container, instance, natArgs), natArgs,
       IF generic THEN MemberType(kind, container, instance, natArgs) ELSE NoType,
       IF generic THEN container ELSE NoType)

\* The bases: a value, a variable or the type itself, for the struct Int
\* and the classes B and D (D derives from B).
MemberBases ==
  {Leaf(t, 2) : t \in {IntTy, LValue(IntTy, "default"), ClassB, ClassD,
                       LValue(ClassB, "default")}}
  \cup {Orig("MetatypeExpr", MetaType(t), <<>>, 2, <<>>) : t \in {IntTy, ClassB}}

\* The types whose members a base can name: its own and its superclass.
MemberContainers(base) ==
  LET t == getRValueType(base.ty)
      own == IF is(t, "meta") THEN desugar(t)[2] ELSE t
  IN {own} \cup (IF own = ClassD THEN {ClassB} ELSE {})

MemberKinds ==
  {<<"func", TRUE, 1>>, <<"func", TRUE, 2>>, <<"func", TRUE, 3>>, <<"func", FALSE, 2>>,
   <<"enumelt", FALSE, 2>>, <<"ctor", FALSE, 2>>}

\* base.m with a declaration chosen for m.
DeclDots ==
  UNION {{[base |-> base, ty |-> MemberOpened(kind[1], container, kind[3]),
           choice |-> WalkChoice("Decl",
                                 MemberDecl(kind[1], container, generic, kind[2], kind[3]),
                                 MemberOpened(kind[1], container, kind[3]), 0)] :
            container \in MemberContainers(base)} :
           base \in MemberBases, kind \in MemberKinds, generic \in BOOLEAN}

\* base.m found by dynamic lookup in a value of protocol type, base.0 of a
\* pair and base.0 of a scalar.
OtherDots ==
  {[base |-> Leaf(t, 2), ty |-> IntToStr,
    choice |-> WalkChoice("DeclViaDynamic", MemberDecl("func", ClassB, FALSE, TRUE, n),
                          MemberOpened("func", ClassB, n), 0)] :
     t \in {ProtoP, LValue(ProtoP, "default")}, n \in {2, 3}}
  \cup {[base |-> b, ty |-> IntTy, choice |-> WalkChoice("TupleIndex", NoDecl, NoType, 0)] :
          b \in {TupleOf(<<Unnamed(IntTy), Unnamed(StrTy)>>, 2),
                 Leaf(Tuple(<<Unnamed(IntTy), Unnamed(StrTy)>>), 2),
                 Leaf(LValue(Tuple(<<Unnamed(IntTy), Unnamed(StrTy)>>), "default"), 2)}}
  \cup {[base |-> Leaf(t, 2), ty |-> t, choice |-> WalkChoice("BaseType", NoDecl, NoType, 0)] :
          t \in {IntTy, LValue(IntTy, "default"), ClassB}}

InitMember ==
  /\ pc = "member"
  /\ \E d \in DeclDots \cup OtherDots, asserts \in BOOLEAN :
       LET expr == Orig("UnresolvedDotExpr", d.ty, <<d.base>>, 1, <<>>)
       IN input = [expr |-> expr, member |-> d.choice.decl,
                   openedType |-> d.choice.opened,
                   locator |-> Locator(expr.id, <<>>),
                   S |-> [bind |-> Bindings, restr |-> EmptyMap,
                          ovl |-> Locator(expr.id, <<<<"MemberRefBase">>>>) :> d.choice,
                          owners |-> EmptyMap,
                          env |-> Env(asserts, TRUE, TRUE)]]
  /\ result = Null
  /\ ValueTypeMemberApplications = EmptyMap
  /\ LeftSideOfAssignment = 0
  /\ dc = "top"
  /\ diags = <<>>
  /\ log = <<>>

\* The overload choice recorded for the member.
memberChoice ==
  getOverloadChoice(input.S, Locator(input.expr.id, <<<<"MemberRefBase">>>>))

\* The call buildMemberRef(base, member, openedType, locator).
BuildMemberRef ==
  /\ pc = "member"
  /\ memberChoice.kind = "Decl"
  /\ result' = recurse("buildMemberRef",
                       <<input.S, input.expr.sub[1], input.member, input.openedType,
                         input.locator, MaxCoerceDepth>>)
  /\ pc' = "memberBuilt"
  /\ UNCHANGED <<input, ValueTypeMemberApplications, LeftSideOfAssignment, dc,
                 diags, log>>

\* The visit returns: its expression and the tracker of the rewriter.
dotVisitReturns(v) ==
  /\ result' = v.res
  /\ ValueTypeMemberApplications' = v.st.vtma
  /\ log' = v.st.log

\* Rewriter.visit(expr) for the unresolved dot expression.
VisitUnresolvedDotExpr ==
  /\ pc = "member"
  /\ dotVisitReturns(recurse("visitUnresolvedDotExpr",
                             <<input.S, input.expr,
                               RewriterState(LeftSideOfAssignment,
                                             ValueTypeMemberApplications, diags, dc,
                                             log)>>))
  /\ pc' = "dotVisited"
  /\ UNCHANGED <<input, LeftSideOfAssignment, dc, diags>>

NextMember == BuildMemberRef \/ VisitUnresolvedDotExpr

SpecMember == InitMember /\ [][NextMember]_vars

\* The base of the member reference, whether it is an instance, and the
\* callee and the self argument of the call form: on the generic-owner path
\* the specialized reference and the converted base, otherwise the checked
\* reference and the base as it is.
memberBase == input.expr.sub[1]
memberBaseIsInstance == ~is(getRValueType(memberBase.ty), "meta")
memberCallee ==
  IF input.member.generic
  THEN SpecializeExpr(buildCheckedRefExpr(input.member, memberBase.id),
                      input.member.substTy, <<>>)
  ELSE buildCheckedRefExpr(input.member, memberBase.id)
memberSelfConverted ==
  IF memberBaseIsInstance
  THEN recurse("coerceObjectArgumentToType",
               <<input.S, memberBase, input.member.substContainer,
                 withPathElement(input.locator, <<"MemberRefBase">>),
                 MaxCoerceDepth - 1>>)
  ELSE coerceToRValue(
         recurse("coerceToType",
                 <<input.S, memberBase, MetaType(input.member.substContainer),
                   withPathElement(input.locator, <<"MemberRefBase">>),
                   MaxCoerceDepth - 1>>))
memberSelf == IF input.member.generic THEN memberSelfConverted ELSE memberBase

\* The call form that the alignment of base and member selects.
memberCallForm ==
  IF input.member.kind = "ctor" THEN "ConstructorRefCallExpr"
  ELSE IF memberBaseIsInstance = input.member.instance THEN "DotSyntaxCallExpr"
  ELSE IF ~memberBaseIsInstance THEN "DotSyntaxBaseIgnoredExpr"
  ELSE "violation"

\* The result is what finishApply makes of the call form over callee and
\* self, and a call of that form when it is an expression.
memberHandedToFinishApply(form, apply) ==
  /\ result = recurse("finishApply",
                      <<input.S, apply, input.openedType, NoLocator,
                        MaxCoerceDepth - 1>>)
  /\ apply.k = form
  /\ IsExpr(result) => result.k = form

memberBuiltAs(form, callee, self) ==
  CASE form = "ConstructorRefCallExpr" ->
         memberHandedToFinishApply(form, ConstructorRefCallExpr(callee, self))
    [] form = "DotSyntaxCallExpr" ->
         memberHandedToFinishApply(form, DotSyntaxCallExpr(callee, self))
    [] form = "DotSyntaxBaseIgnoredExpr" ->
         /\ result = DotSyntaxBaseIgnoredExpr(self, callee)
         /\ result.k = form
    [] OTHER -> input.S.env.asserts => result = Crash

\* C21: for a method, an enum element or a constructor, with a base that
\* converts, buildMemberRef selects the call form from the alignment of base
\* and member alone, on the generic-owner path as on the other: a
\* constructor gives a constructor-ref-call, equal instance-ness a
\* dot-syntax-call, a metatype base with an instance member a
\* dot-syntax-base-ignored, an instance base with a static member fails the
\* assertion; every form but the base-ignored one is handed to finishApply.
C21_CallFormFollowsAlignmentOnBothPaths ==
  pc = "memberBuilt" /\ IsExpr(memberSelf) =>
    memberBuiltAs(memberCallForm, memberCallee, memberSelf)

\* A static method of the generic owner named through the type, built as a
\* dot-syntax-call over the specialized reference.
C21_Witness ==
  /\ pc = "memberBuilt"
  /\ input.member.generic
  /\ input.member.kind = "func"
  /\ ~input.member.instance
  /\ ~memberBaseIsInstance
  /\ IsExpr(result)
  /\ result.k = "DotSyntaxCallExpr"
  /\ result.sub[1].k = "SpecializeExpr"

\* The rewritten member reference is a call that binds self to an lvalue,
\* and the declaration its callee refers to, through a specialization or
\* not, is an instance method.
bindsSelfToLValue ==
  /\ IsExpr(result)
  /\ result.k \in ApplyKinds
  /\ is(result.sub[2].ty, "lv")
callsInstanceMethod ==
  /\ calleeDecl(result.sub[1]).kind = "func"
  /\ calleeDecl(result.sub[1]).instance
recordedOnce ==
  ValueTypeMemberApplications = (result.id :> (memberChoice.decl.natArgs - 1))

\* C22, as stated: the rewrite of base.m records the member reference, with
\* the natural argument count minus 1, exactly when a declaration was
\* chosen and the result is a call that binds self to an lvalue and calls
\* an instance method, a method of an unspecialized generic value type
\* included; the other choices record nothing.
C22_EveryLValueSelfMethodCallIsRecorded ==
  pc = "dotVisited" /\ IsExpr(result) =>
    IF memberChoice.kind = "Decl" /\ bindsSelfToLValue /\ callsInstanceMethod
    THEN recordedOnce
    ELSE ValueTypeMemberApplications = EmptyMap

\* What the code does: the reference is recorded only when the callee of
\* the call is itself a declaration reference.
lvalueSelfMethodCallIsRecordedUnlessSpecialized ==
  pc = "dotVisited" /\ IsExpr(result) =>
    IF /\ memberChoice.kind = "Decl" /\ bindsSelfToLValue /\ callsInstanceMethod
       /\ result.sub[1].k = "DeclRefExpr"
    THEN recordedOnce
    ELSE ValueTypeMemberApplications = EmptyMap

\* x.m for a variable x of the unspecialized generic value type: a call
\* over the specialized reference with an lvalue self, and nothing recorded.
specializedMethodCallNotRecorded ==
  /\ pc = "dotVisited"
  /\ memberChoice.kind = "Decl"
  /\ memberChoice.decl.generic
  /\ bindsSelfToLValue
  /\ callsInstanceMethod
  /\ result.sub[1].k = "SpecializeExpr"
  /\ ValueTypeMemberApplications = EmptyMap

---------------------------------------------------------------------------
(* Specification SpecWitness: the callers of findNamedWitness, under a      *)
(* library whose protocols have their requirement, lack it, or have it      *)
(* marked invalid.                                                          *)

RequirementShapes == {"ok", "noRequirement", "invalidRequirement"}

WitnessProtocols(shape) ==
  ConvertProtocols(shape)
  @@ "StringInterpolationConvertible" :>
       (IF shape = "noRequirement" THEN <<>>
        ELSE <<[decl |-> InterpolationWitness,
                invalid |-> shape = "invalidRequirement"]>>)

WitnessEnv(asserts, shape) ==
  [asserts |-> asserts, injectionFn |-> TRUE, checkSubstitutions |-> TRUE,
   conformances |-> ConvertConformances
                      \cup {<<StrTy, "StringInterpolationConvertible">>},
   protocols |-> WitnessProtocols(shape),
   witnesses |-> ConvertWitnesses(shape) @@ Witnesses,
   members |-> ConvertMembers(shape), openedTypes |-> EmptyMap,
   emptyFront |-> "Null"]

\* The values under conversion and the interpolated string literals.
WitnessBases ==
  {Leaf(t, 1) : t \in {BoolTy, LValue(BoolTy, "default"), FlagTy,
                       LValue(FlagTy, "default"), IntTy, LenTy,
                       LValue(LenTy, "default"), ArchT}}
WitnessLiterals ==
  {Number(e, 1) : e \in {interpolated(<<xStr>>, TV2), interpolated(<<xStr, xStr>>, TV2),
                         interpolated(<<xStr, xStr>>, StrTy), interpolated(<<>>, TV2)}}

\* The protocol and the requirement a value is asked for.
WitnessRequests ==
  {<<"LogicValue", "getLogicValue">>, <<"ArrayBound", "getArrayBoundValue">>}

InitWitness ==
  /\ \E shape \in RequirementShapes, asserts \in BOOLEAN :
       \/ /\ pc = "convert"
          /\ \E expr \in WitnessBases, request \in WitnessRequests :
               input = [expr |-> expr, locator |-> Locator(expr.id, <<>>),
                        shape |-> shape, request |-> request,
                        S |-> [bind |-> EmptyMap, restr |-> EmptyMap, ovl |-> EmptyMap,
                               owners |-> EmptyMap, env |-> WitnessEnv(asserts, shape)]]
       \/ /\ pc = "interpolate"
          /\ \E expr \in WitnessLiterals :
               input = [expr |-> expr, locator |-> Locator(expr.id, <<>>),
                        shape |-> shape, request |-> <<>>,
                        S |-> [bind |-> Bindings, restr |-> EmptyMap, ovl |-> EmptyMap,
                               owners |-> EmptyMap, env |-> WitnessEnv(asserts, shape)]]
  /\ result = Null
  /\ ValueTypeMemberApplications = EmptyMap
  /\ LeftSideOfAssignment = 0
  /\ dc = "top"
  /\ diags = <<>>
  /\ log = <<>>

\* The call tc.callWitness(base, dc, protocol, conformance, name, { }, diag).
CallWitness ==
  /\ pc = "convert"
  /\ result' = recurse("callWitness",
                       <<input.S, input.expr, input.request[1], input.request[2],
                         <<>>>>)
  /\ pc' = "witnessCalled"
  /\ UNCHANGED <<input, ValueTypeMemberApplications, LeftSideOfAssignment, dc,
                 diags, log>>

\* Rewriter.visit(expr) for the interpolated string literal.
VisitInterpolatedStringLiteralExpr ==
  /\ pc = "interpolate"
  /\ result' = recurse("visitInterpolatedStringLiteralExpr", <<input.S, input.expr>>)
  /\ pc' = "interpolated"
  /\ UNCHANGED <<input, ValueTypeMemberApplications, LeftSideOfAssignment, dc,
                 diags, log>>

NextWitness ==
  \/ CallWitness
  \/ VisitInterpolatedStringLiteralExpr
  \/ ConvertToLogicValue
  \/ ConvertToArrayBound

SpecWitness == InitWitness /\ [][NextWitness]_vars

\* The requirement is missing or invalid and the caller has asked
\* findNamedWitness for it: callWitness and the interpolated string literal
\* always ask, a conversion asks when the builtin name is not a member of
\* the type.
requirementBroken == input.shape \in {"noRequirement", "invalidRequirement"}
witnessSearched ==
  \/ pc \in {"witnessCalled", "interpolated"}
  \/ /\ pc \in {"convertedLogicValue", "convertedArrayBound"}
     /\ \E i \in 1..Len(log) : log[i][1] = "findNamedWitness"

\* C23, as stated: when the requirement is missing or invalid, every caller
\* of findNamedWitness returns null.
C23_EveryCallerOfABrokenProtocolReturnsNull ==
  witnessSearched /\ requirementBroken => IsNull(result)

\* What the code does: callWitness returns null; the interpolated string
\* literal and the conversions through the builtin protocols use the null
\* witness.
onlyCallWitnessReturnsNull ==
  witnessSearched /\ requirementBroken =>
    IF pc = "witnessCalled" THEN IsNull(result) ELSE result = Crash

\* A conversion to a logic value that reported the broken protocol and went
\* on to read the type of the null witness.
brokenProtocolWitnessIsUsed ==
  /\ pc = "convertedLogicValue"
  /\ requirementBroken
  /\ diags = <<"condition_broken_proto">>
  /\ result = Crash

---------------------------------------------------------------------------
(* C25: the counter of assignment destinations during the walk.             *)

\* The points of the walk where an assignment was reached and was left.
assignsReached == {i \in 1..Len(log) : log[i][1] = "assign"}
assignsLeft == {i \in 1..Len(log) : log[i][1] = "assigned"}

\* C25, as stated: when the walker is done with an assignment, whether its
\* walks succeeded or failed, LeftSideOfAssignment has the value it had when
\* the assignment was reached; so it is zero whenever the walker reaches an
\* assignment outside every destination, the else-branch of a conditional
\* after a failed assignment in the then-branch included, and zero after the
\* walk.
C25_CounterIsBalanced ==
  /\ \A i \in assignsLeft :
       \E j \in assignsReached :
         j < i /\ log[j][2] = log[i][2] /\ log[j][3] = log[i][3]
  /\ \A j \in assignsReached :
       ~inDestination(input.expr, log[j][2], FALSE) => log[j][3] = 0
  /\ pc \in {"walked", "done"} => LeftSideOfAssignment = 0

\* What the code does: an assignment leaves the counter as it found it or
\* one higher.
counterNeverDrops ==
  \A i \in assignsLeft :
    \E j \in assignsReached :
      j < i /\ log[j][2] = log[i][2] /\ log[i][3] \in {log[j][3], log[j][3] + 1}

\* A conditional whose then-branch is an assignment with a destination that
\* fails to walk: the assignment of the else-branch is reached with the
\* counter at 1, and the walk ends with it at 1.
elseBranchReachedInsideDestination ==
  /\ pc = "walked"
  /\ input.expr.k = "IfExpr"
  /\ input.expr.sub[2].k = "AssignExpr"
  /\ input.expr.sub[3].k = "AssignExpr"
  /\ \E j \in assignsReached : log[j] = <<"assign", input.expr.sub[3].id, 1>>
  /\ LeftSideOfAssignment = 1

---------------------------------------------------------------------------
(* C26: termination of coerceToType.                                        *)

\* The coercion is from an lvalue to an lvalue type with another object
\* type, and the solver recorded no restriction for the pair.
requalifiesToOtherObject ==
  /\ is(input.expr.ty, "lv")
  /\ is(input.toType, "lv")
  /\ ~isEqual(desugar(input.expr.ty)[2], desugar(input.toType)[2])

\* C26, as stated: every call coerceToType(expr, toType, locator) returns.
C26_EveryCoercionTerminates ==
  pc = "coerced" => result # Diverge

\* What the code does: the coercions that do not return are those from an
\* lvalue to an lvalue type with another object type.
onlyRequalifyOrUserConversionDiverges ==
  pc = "coerced" /\ result = Diverge => requalifiesToOtherObject \/ input.S.ovl # EmptyMap

\* var x: Int coerced to an lvalue of Str: requalified again and again.
requalifiesForever ==
  /\ pc = "coerced"
  /\ requalifiesToOtherObject
  /\ input.S.restr = EmptyMap
  /\ result = Diverge


---------------------------------------------------------------------------
(* C27: the counts stored in the partial-application tracker.              *)

\* The counts of the entries the tracker holds.
trackedCounts ==
  {ValueTypeMemberApplications[k] : k \in DOMAIN ValueTypeMemberApplications}

\* C27: every entry stored in the partial-application tracker has a count
\* of at least 1, also the entry of an instance method whose natural
\* argument count is 1.
C27_TrackedCountsArePositive ==
  pc = "dotVisited" => \A c \in trackedCounts : c >= 1

\* The count stored is the natural argument count less one, whatever that
\* is, so it is positive exactly for the methods with a clause after self.
trackedCountIsClausesAfterSelf ==
  pc = "dotVisited" => trackedCounts \subseteq {memberChoice.decl.natArgs - 1}

\* The visit of x.m, m an instance method of natural argument count 1 and
\* x an lvalue, stored the call with count 0.
singleClauseMethodStoredWithZero ==
  /\ pc = "dotVisited"
  /\ memberChoice.kind = "Decl"
  /\ memberChoice.decl.natArgs = 1
  /\ IsExpr(result)
  /\ DOMAIN ValueTypeMemberApplications = {result.id}
  /\ ValueTypeMemberApplications[result.id] = 0

\* In the walks of the program's trees, whose methods all have a clause
\* after self, every entry an apply consumes has a positive count and every
\* entry stored has one.
applyConsumesPositiveCounts ==
  \A i \in 1..Len(trackerEvents) : trackerEvents[i][3] >= 1


---------------------------------------------------------------------------
(* C28: the keys of the partial-application tracker.                       *)

\* The tracker events in which an apply stored its null result: the erase
\* of a callee with applications remaining, followed by the insert of null.
nullKeyInserts ==
  {i \in 2..Len(trackerEvents) :
     /\ trackerEvents[i][1] = "insert"
     /\ trackerEvents[i][2] = NullId
     /\ trackerEvents[i - 1][1] = "erase"
     /\ trackerEvents[i - 1][3] > 1
     /\ trackerEvents[i][3] = trackerEvents[i - 1][3] - 1}

\* C28: every key of the partial-application tracker is a non-null
\* expression, also after an apply that advances a tracked partial
\* application with more than one application remaining has failed.
C28_TrackerKeysAreNonNull ==
  NullId \notin DOMAIN ValueTypeMemberApplications

\* A null key comes from nowhere else: it is in the tracker only after an
\* apply erased a callee with count > 1 and inserted its null result.
nullKeyOnlyFromFailedApply ==
  NullId \in DOMAIN ValueTypeMemberApplications => nullKeyInserts # {}

\* The walk ended with the null key in the tracker, and finalize stopped at
\* the location of the null expression.
finalizeReadsNullKey ==
  /\ pc = "stopped"
  /\ finalizeCalls # {}
  /\ nullKeyInserts # {}
  /\ NullId \in DOMAIN ValueTypeMemberApplications


---------------------------------------------------------------------------
(* Specification SpecShallow: ConstraintSystem::applySolutionShallow, the  *)
(* entry point that runs one visit of the rewriter, run to its return.      *)
(* The other entry point, applySolution, is specification SpecApply.        *)

\* The expressions applySolutionShallow is called on: their children need
\* no rewriting.
ShallowTrees == {Number(e, 1) : e \in WalkLeaves \cup Wrapped \cup Dots}

InitShallow ==
  /\ pc = "shallow"
  /\ \E tree \in ShallowTrees, asserts \in BOOLEAN, injectionFn \in BOOLEAN :
       input = [expr |-> tree,
                S |-> [bind |-> Bindings, restr |-> EmptyMap,
                       ovl |-> OverloadsOf(tree), owners |-> EmptyMap,
                       env |-> WalkEnv(asserts, injectionFn)]]
  /\ result = Null
  /\ ValueTypeMemberApplications = EmptyMap
  /\ LeftSideOfAssignment = 0
  /\ dc = "top"
  /\ diags = <<>>
  /\ log = <<>>

\* The visit returns: its expression and the state of the rewriter.
shallowVisitReturns(v) ==
  /\ result' = v.res
  /\ ValueTypeMemberApplications' = v.st.vtma
  /\ diags' = v.st.diags
  /\ log' = v.st.log
  /\ pc' = IF Stopped(v.res) THEN "stopped" ELSE "shallowVisited"

\* ExprRewriter rewriter(*this, solution); rewriter.visit(expr)
VisitShallow ==
  /\ pc = "shallow"
  /\ shallowVisitReturns(recurse("visit",
                                 <<input.S, input.expr,
                                   RewriterState(LeftSideOfAssignment,
                                                 ValueTypeMemberApplications, diags,
                                                 dc, log)>>))
  /\ UNCHANGED <<input, LeftSideOfAssignment, dc>>

\* return rewriter.visit(expr); the rewriter goes out of scope with the
\* tracker as the visit left it.
ReturnShallow ==
  /\ pc = "shallowVisited"
  /\ pc' = "shallowDone"
  /\ UNCHANGED <<input, result, ValueTypeMemberApplications, LeftSideOfAssignment,
                 dc, diags, log>>

NextShallow == VisitShallow \/ ReturnShallow

\* The entry point is synchronous and runs to completion: once the visit
\* has returned, the function returns.
SpecShallow == InitShallow /\ [][NextShallow]_vars /\ WF_vars(ReturnShallow)

\* The rewriter holds a partial application that was recorded and not
\* fully applied; every entry the tracker holds has its diagnostic.
unappliedRecorded ==
  /\ pc \in {"walked", "shallowVisited"}
  /\ DOMAIN ValueTypeMemberApplications # {}
unappliedDiagnosed ==
  \A key \in DOMAIN ValueTypeMemberApplications :
    partialApplicationDiagnostics(key) # {}

\* C29: every partial application of a value-type method that a rewriter
\* recorded and that was not fully applied is eventually diagnosed,
\* whichever entry point ran the rewriter: applySolution and
\* applySolutionShallow both run finalize before the rewriter is discarded.
C29_EveryRecordedApplicationIsEventuallyDiagnosed ==
  unappliedRecorded ~> unappliedDiagnosed

\* applySolution has run finalize when it returns, and every entry left in
\* the tracker is diagnosed then.
applySolutionFinalizes ==
  pc = "done" => finalizeCalls # {} /\ unappliedDiagnosed

\* applySolution returned with an entry left in the tracker.
applySolutionDiagnosedAnEntry ==
  pc = "done" /\ DOMAIN ValueTypeMemberApplications # {} /\ unappliedDiagnosed

\* applySolutionShallow never runs finalize.
shallowNeverFinalizes ==
  pc \in {"shallow", "shallowVisited", "shallowDone"} => finalizeCalls = {}

\* applySolutionShallow returned, its rewriter had recorded a partial
\* application, and no diagnostic was emitted.
shallowDiscardsRecordedApplication ==
  /\ pc = "shallowDone"
  /\ input.expr.k = "UnresolvedDotExpr"
  /\ IsExpr(result)
  /\ DOMAIN ValueTypeMemberApplications = {result.id}
  /\ diags = <<>>

---------------------------------------------------------------------------
(* C30: the materialize nodes of coerceObjectArgumentToType.               *)

\* coerceObjectArgumentToType returned a materialize node of its own.
objectMaterialized ==
  /\ pc = "coercedObject"
  /\ ~passedByValue
  /\ result.k = "MaterializeExpr"

\* C30: every materialize node produced by coerceObjectArgumentToType wraps
\* a non-null subexpression whose type equals the container's object type.
C30_MaterializeWrapsCoercedObject ==
  objectMaterialized =>
    /\ IsExpr(result.sub[1])
    /\ isEqual(result.sub[1].ty, objectContainerType)

\* What holds instead: an lvalue base is coerced first, and its coercion,
\* when it returned an expression, has the container type; a base that is
\* not an lvalue is wrapped as it is.
materializeWrapsCoercionOrBase ==
  objectMaterialized =>
    IF is(input.expr.ty, "lv")
    THEN /\ result.sub[1] = coercedToContainer
         /\ IsExpr(result.sub[1]) => isEqual(result.sub[1].ty, objectContainerType)
    ELSE result.sub[1] = input.expr

\* An rvalue base of another type was materialized without a coercion.
rvalueBaseMaterializedUncoerced ==
  /\ objectMaterialized
  /\ ~is(input.expr.ty, "lv")
  /\ ~isEqual(input.expr.ty, objectContainerType)
  /\ result.sub[1] = input.expr

\* The coercion of an lvalue base failed and null was materialized.
nullMaterialized ==
  /\ objectMaterialized
  /\ is(input.expr.ty, "lv")
  /\ IsNull(coercedToContainer)
  /\ IsNull(result.sub[1])

===========================================================================
